---- MODULE Spec2Model ----
(***************************************************************************)
(* Model of the job tracker:                                               *)
(*   utils/deduplication.py      generate_job_hash, deduplicate_jobs,       *)
(*                               _update_existing_job                       *)
(*   scrapers/google/scraper.py  GoogleCareerScraper.scrape_jobs, the page  *)
(*                               and card traversal under it,               *)
(*                               _extract_job_data, _extract_job_description*)
(*   main.py                     JobTracker.run_all_scrapers,               *)
(*                               _run_website_scraper, _process_scraped_jobs*)
(*   utils/file_utils.py         load_json, save_json                       *)
(*                                                                         *)
(* A job is a Python dict: here a function from the set of keys it holds    *)
(* to their values, so a missing key is a key outside DOMAIN.  Text values  *)
(* are sequences of one-character strings, so that strip() and lower() are  *)
(* computed character by character.  Timestamps are clock readings.         *)
(***************************************************************************)
EXTENDS Integers, Sequences, FiniteSets, TLC

VARIABLES
    existing_in,        \* value of existing_jobs when deduplicate_jobs was called
    new_jobs_in,        \* value of new_jobs when deduplicate_jobs was called
    existing_jobs,      \* the caller's existing_jobs list after the call
    new_jobs,           \* the caller's new_jobs list after the call
    deduplicated_jobs,  \* the list deduplicate_jobs returned
    new_job_count,      \* deduplicate_jobs' local counter (logged at line 79)
    new_jobs_this_run,  \* main.py:136  len(deduplicated_jobs) - len(existing_jobs)
    outcome,            \* "none" | "returned" (line 80) | "fallback" (line 84)
    remerged,           \* the last call merged the previous call's batch again
    now,                \* the clock reading used by the last call
    records_seen,       \* incoming records merged so far, over all calls
    jobA, jobB,         \* the two jobs generate_job_hash is applied to
    hashA, hashB,       \* their fingerprints (<<>> before the call)
    \* ---- scrapers/google/scraper.py, one scrape_jobs call ----
    pc,                 \* where scrape_jobs is ("idle" when it is not called)
    browser,            \* "none" | "open" | "closed": the launched browser
    page_number,        \* line 125
    total_jobs,         \* lines 161 and 219: the card count of the last scan
    attempt,            \* line 204: recovery attempts done on this page
    index,              \* the index _click_and_scrape_job_card is called with
    job_cards,          \* the card list the page shows
    scraped_jobs,       \* self.scraped_jobs
    site_batch,         \* what scrape_jobs returned
    raised,             \* the stages at which a browser call raised
    page_exit,          \* how _start_recursive_scraping left the page
    pages_scanned,      \* calls of _start_recursive_scraping
    jobs_at_scan,       \* len(self.scraped_jobs) when the page was entered
    card_steps,         \* invocations on this page that found their card
    invocations,        \* invocations of _click_and_scrape_job_card on this page
    card_failures,      \* invocations on this page that ended in the handler
    activated,          \* the cards whose link was clicked
    failed,             \* the cards whose invocation raised
    shrunk,             \* the list lost a card while this page was traversed
    cards_shown,        \* cards the site has shown so far
    faults,             \* browser calls that raised so far
    step_kind,          \* what the last invocation on this page did with its card
    extractions,        \* calls of _extract_job_data
    call_stack,         \* the invocations waiting for the call they made, from
                        \* the try block (lines 404, 407) or the handler (412)
    overflows,          \* calls the interpreter refused with RecursionError
    settles,            \* waits of lines 144-145 that were completed
    backoffs,           \* waits of lines 223 and 226 on this page
    dead,               \* the page was closed: every call on it raises
    config_max_pages,   \* website_config["scraping_config"]["max_pages"]
    \* ---- main.py, the runs of run_all_scrapers ----
    run_pc,             \* where the run is ("idle" before the first run)
    enabled_websites,   \* main.py:94
    website,            \* position of the loop of line 104 in enabled_websites
    all_jobs,           \* main.py:102
    site_log,           \* what each _run_website_scraper call of this run did
    corpus_file,        \* the output file on disk
    file_at_run_start,  \* the output file when the run started
    file_before,        \* the output file when save_json was called for it
    updated_data,       \* main.py:139
    save_result,        \* "saved" | "failed": what save_json returned for the corpus
    last_run,           \* the status file data/last_run.json
    sites_seen,         \* websites visited so far, over all runs
    global_config,      \* how the run found config.json (main.py:34-42)
    global_delay,       \* main.py:109  global_settings.global_delay
    open_sessions,      \* the sites whose scrape_jobs call is under way
    \* ---- scrapers/google/scraper.py, one _extract_job_description call ----
    detail_view,        \* the elements of the loaded detail view
    handed_over,        \* page.evaluate gives an element back as an element
    described,          \* _extract_job_description has returned
    min_qual,           \* line 486
    pref_qual,          \* line 491
    about_job,          \* line 496
    responsibilities,   \* line 501
    job_description,    \* what _extract_job_description returned
    \* ---- scrapers/google/scraper.py, one _extract_job_data call ----
    current_url,        \* line 429  page.url
    title_element,      \* line 434  the h2.p1N2lc element, if any
    location_elements,  \* line 438  the .r0wTof elements
    level_element,      \* line 446  the .wVSTAb element, if any
    query_fault,        \* the query of the last call that raised, if any
    job_data,           \* what _extract_job_data returned
    pending,            \* job_data waits for _process_scraped_jobs
    \* ---- main.py, one _run_website_scraper call by the name of the site ----
    website_name,       \* main.py:57
    website_config,     \* how scrapers/<website_name>/config.json is found
    scraper_modules,    \* the scraper modules under scrapers/ and their classes
    scrape_yield,       \* the batch scrape_jobs of the site gives when called
    scraper_class,      \* the class name looked up at main.py:76
    lookup,             \* the condition the call met the site in
    site_jobs           \* what _run_website_scraper returned

vars == <<existing_in, new_jobs_in, existing_jobs, new_jobs, deduplicated_jobs,
          new_job_count, new_jobs_this_run, outcome, remerged, now,
          records_seen, jobA, jobB, hashA, hashB,
          pc, browser, page_number, total_jobs, attempt, index, job_cards,
          scraped_jobs, site_batch, raised, page_exit, pages_scanned,
          jobs_at_scan, card_steps, invocations, card_failures, activated,
          failed, shrunk, cards_shown, faults,
          step_kind, extractions, call_stack, overflows, settles, backoffs,
          dead, config_max_pages,
          run_pc, enabled_websites, website, all_jobs, site_log, corpus_file,
          file_at_run_start, file_before, updated_data, save_result, last_run,
          sites_seen, global_config, global_delay, open_sessions,
          detail_view, handed_over, described, min_qual, pref_qual, about_job,
          responsibilities, job_description,
          current_url, title_element, location_elements, level_element,
          query_fault, job_data, pending,
          website_name, website_config, scraper_modules, scrape_yield,
          scraper_class, lookup, site_jobs>>

mergeVars == <<existing_in, new_jobs_in, existing_jobs, new_jobs, deduplicated_jobs,
               new_job_count, new_jobs_this_run, outcome, remerged, now,
               records_seen>>

hashVars == <<jobA, jobB, hashA, hashB>>

scrapeVars == <<pc, browser, page_number, total_jobs, attempt, index, job_cards,
                scraped_jobs, site_batch, raised, page_exit, pages_scanned,
                jobs_at_scan, card_steps, invocations, card_failures, activated,
                failed, shrunk, cards_shown, faults,
                step_kind, extractions, call_stack, overflows, settles,
                backoffs, dead, config_max_pages>>

runVars == <<run_pc, enabled_websites, website, all_jobs, site_log, corpus_file,
             file_at_run_start, file_before, updated_data, save_result,
             last_run, sites_seen, global_config, global_delay, open_sessions>>

detailVars == <<detail_view, handed_over, described, min_qual, pref_qual,
                about_job, responsibilities, job_description,
                current_url, title_element, location_elements, level_element,
                query_fault, job_data, pending>>

lookupVars == <<website_name, website_config, scraper_modules, scrape_yield,
                scraper_class, lookup, site_jobs>>

(***************************************************************************)
(* Bounds                                                                  *)
(***************************************************************************)
MaxRecords == 3     \* incoming records over all the calls of one behaviour
MaxStrLen == 3      \* characters in a key field given to generate_job_hash
MaxCards == 3       \* cards a site shows during one scrape, over all its pages
MaxFaults == 1      \* browser calls that raise during one scrape
MaxDom == 3         \* elements of a detail view
MaxItems == 2       \* items of a list of a detail view
MaxSites == 3       \* websites visited over all the runs of one behaviour

(***************************************************************************)
(* Python values                                                           *)
(***************************************************************************)
Space == " "

\* dict.get(key, default)
Get(job, key, default) == IF key \in DOMAIN job THEN job[key] ELSE default

\* job[key] = value
SetItem(job, key, value) ==
    [k \in DOMAIN job \cup {key} |-> IF k = key THEN value ELSE job[k]]

\* truthiness of a text value: the empty string is false
Truthy(v) == v # <<>>

\* str.lower() on one character, for the letters the model's texts use
LowerChar(c) ==
    CASE c = "A" -> "a" [] c = "B" -> "b" [] c = "G" -> "g" [] c = "U" -> "u"
      [] OTHER -> c

\* str.lower()
Lower(s) == [i \in 1..Len(s) |-> LowerChar(s[i])]

\* str.strip(): drops the whitespace at both ends, keeps the inner one
RECURSIVE LStrip(_)
LStrip(s) == IF s # <<>> /\ Head(s) = Space THEN LStrip(Tail(s)) ELSE s

RECURSIVE RStrip(_)
RStrip(s) ==
    IF s # <<>> /\ s[Len(s)] = Space THEN RStrip(SubSeq(s, 1, Len(s) - 1)) ELSE s

Strip(s) == RStrip(LStrip(s))

\* "|".join(parts)
RECURSIVE Join(_)
Join(parts) ==
    IF parts = <<>> THEN <<>>
    ELSE IF Len(parts) = 1 THEN parts[1]
    ELSE parts[1] \o <<"|">> \o Join(Tail(parts))

\* hashlib.md5(...).hexdigest(): a digest is determined by the hashed string
\* and is never the empty string; distinct strings of this size do not collide.
Md5(s) == <<"md5", s>>

\* the exception a failed dict lookup raises; the code below never produces it
KeyError == <<"KeyError">>

(***************************************************************************)
(* generate_job_hash                                                       *)
(***************************************************************************)
KeyFieldNames == <<"title", "company", "location", "url">>

\* line 31 without lower()
NormalizeField_NoLower(field) == Strip(field)

\* line 31 without strip()
NormalizeField_NoStrip(field) == Lower(field)

\* line 31: str(field).strip().lower() (the fields of a job are strings)
NormalizeField(field) == Lower(Strip(field))

\* lines 23-28 with job[key] in place of job.get(key, "")
KeyFields_Strict(job) ==
    [i \in 1..4 |-> IF KeyFieldNames[i] \in DOMAIN job THEN job[KeyFieldNames[i]]
                    ELSE KeyError]

\* lines 23-28
KeyFields(job) == [i \in 1..4 |-> Get(job, KeyFieldNames[i], <<>>)]

\* lines 23-34
GenerateJobHash(job) ==
    LET key_fields == KeyFields(job)
    IN  IF \E i \in 1..4 : key_fields[i] = KeyError
        THEN KeyError
        ELSE Md5(Join([i \in 1..4 |-> NormalizeField(key_fields[i])]))

(***************************************************************************)
(* deduplicate_jobs.  The jobs are objects: `heap` holds them, those of     *)
(* existing_jobs at positions 1..n and those of new_jobs after them, and a  *)
(* list of jobs is a sequence of heap positions.  `st` is the state of one  *)
(* call: heap, deduplicated_jobs (dedup), existing_hashes (hashes),         *)
(* new_job_count (count), and whether an exception was raised (exc).        *)
(***************************************************************************)
None == <<"None">>

\* line 102
updatable_fields == <<"description", "posted_date", "salary", "employment_type">>

\* lines 103-105 without the test that the incoming value is non-empty
RECURSIVE UpdateFields_NoTruthTest(_, _, _)
UpdateFields_NoTruthTest(job, new_job, i) ==
    IF i > Len(updatable_fields) THEN job
    ELSE LET field == updatable_fields[i]
         IN  IF field \in DOMAIN new_job
             THEN UpdateFields_NoTruthTest(SetItem(job, field, new_job[field]),
                                           new_job, i + 1)
             ELSE UpdateFields_NoTruthTest(job, new_job, i + 1)

\* lines 101-105 as job.update(new_job): every incoming field is copied
UpdateFields_CopyAll(job, new_job, i) ==
    [k \in DOMAIN job \cup DOMAIN new_job |->
        IF k \in DOMAIN new_job THEN new_job[k] ELSE job[k]]

\* lines 103-105, for updatable_fields[i..]
RECURSIVE UpdateFields(_, _, _)
UpdateFields(job, new_job, i) ==
    IF i > Len(updatable_fields) THEN job
    ELSE LET field == updatable_fields[i]
         IN  IF field \in DOMAIN new_job /\ Truthy(new_job[field])
             THEN UpdateFields(SetItem(job, field, new_job[field]), new_job, i + 1)
             ELSE UpdateFields(job, new_job, i + 1)

\* lines 96-107 with scraped_date stamped again on the re-observed job
UpdateExistingJob_Restamp(heap, jobs, job_id, new_job, t) ==
    LET hits == {k \in 1..Len(jobs) : Get(heap[jobs[k]], "id", None) = job_id}
    IN  IF hits = {} THEN heap
        ELSE LET k == CHOOSE x \in hits : \A y \in hits : x <= y
                 ref == jobs[k]
             IN  [heap EXCEPT ![ref] =
                     UpdateFields(SetItem(SetItem(heap[ref], "last_seen", t),
                                          "scraped_date", t), new_job, 1)]

\* lines 96-107: the first job of `jobs` whose id is job_id is updated in place
UpdateExistingJob(heap, jobs, job_id, new_job, t) ==
    LET hits == {k \in 1..Len(jobs) : Get(heap[jobs[k]], "id", None) = job_id}
    IN  IF hits = {} THEN heap
        ELSE LET k == CHOOSE x \in hits : \A y \in hits : x <= y
                 ref == jobs[k]
             IN  [heap EXCEPT ![ref] =
                     UpdateFields(SetItem(heap[ref], "last_seen", t), new_job, 1)]

\* lines 53-55, one job of existing_jobs
HashExistingJob(st, ref) ==
    LET job == st.heap[ref]
    IN  IF Get(job, "id", None) \in {None, <<>>}
        THEN LET h == GenerateJobHash(job)
             IN  IF h = KeyError THEN [st EXCEPT !.exc = TRUE]
                 ELSE [st EXCEPT !.heap[ref] = SetItem(job, "id", h),
                                 !.hashes = @ \cup {h}]
        ELSE [st EXCEPT !.hashes = @ \cup {job["id"]}]

\* lines 62-77 without line 73: the new fingerprint is not added to the set
ProcessNewJob_NoAdd(st, ref, t) ==
    LET job_hash == GenerateJobHash(st.heap[ref])
    IN  IF job_hash = KeyError THEN [st EXCEPT !.exc = TRUE]
        ELSE LET job == SetItem(st.heap[ref], "id", job_hash)
             IN  IF job_hash \notin st.hashes
                 THEN [st EXCEPT
                         !.heap[ref] = SetItem(SetItem(job, "scraped_date", t),
                                               "status", "active"),
                         !.dedup = Append(@, ref),
                         !.count = @ + 1]
                 ELSE [st EXCEPT
                         !.heap = UpdateExistingJob([st.heap EXCEPT ![ref] = job],
                                                    st.dedup, job_hash, job, t)]

\* lines 62-77 with the new job inserted at the head of the list (line 72)
ProcessNewJob_Prepend(st, ref, t) ==
    LET job_hash == GenerateJobHash(st.heap[ref])
    IN  IF job_hash = KeyError THEN [st EXCEPT !.exc = TRUE]
        ELSE LET job == SetItem(st.heap[ref], "id", job_hash)
             IN  IF job_hash \notin st.hashes
                 THEN [st EXCEPT
                         !.heap[ref] = SetItem(SetItem(job, "scraped_date", t),
                                               "status", "active"),
                         !.dedup = <<ref>> \o @,
                         !.hashes = @ \cup {job_hash},
                         !.count = @ + 1]
                 ELSE [st EXCEPT
                         !.heap = UpdateExistingJob([st.heap EXCEPT ![ref] = job],
                                                    st.dedup, job_hash, job, t)]

\* lines 62-77 without lines 75-77: a job whose fingerprint is known is dropped
ProcessNewJob_NoUpdate(st, ref, t) ==
    LET job_hash == GenerateJobHash(st.heap[ref])
    IN  IF job_hash = KeyError THEN [st EXCEPT !.exc = TRUE]
        ELSE LET job == SetItem(st.heap[ref], "id", job_hash)
             IN  IF job_hash \notin st.hashes
                 THEN [st EXCEPT
                         !.heap[ref] = SetItem(SetItem(job, "scraped_date", t),
                                               "status", "active"),
                         !.dedup = Append(@, ref),
                         !.hashes = @ \cup {job_hash},
                         !.count = @ + 1]
                 ELSE [st EXCEPT !.heap[ref] = job]
\* lines 62-77, one job of new_jobs
ProcessNewJob(st, ref, t) ==
    LET job_hash == GenerateJobHash(st.heap[ref])
    IN  IF job_hash = KeyError THEN [st EXCEPT !.exc = TRUE]
        ELSE LET job == SetItem(st.heap[ref], "id", job_hash)
             IN  IF job_hash \notin st.hashes
                 THEN [st EXCEPT
                         !.heap[ref] = SetItem(SetItem(job, "scraped_date", t),
                                               "status", "active"),
                         !.dedup = Append(@, ref),
                         !.hashes = @ \cup {job_hash},
                         !.count = @ + 1]
                 ELSE [st EXCEPT
                         !.heap = UpdateExistingJob([st.heap EXCEPT ![ref] = job],
                                                    st.dedup, job_hash, job, t)]

\* the loop of lines 52-55 over heap positions i..n; an exception ends it
RECURSIVE HashExistingLoop(_, _, _)
HashExistingLoop(st, i, n) ==
    IF i > n \/ st.exc THEN st
    ELSE HashExistingLoop(HashExistingJob(st, i), i + 1, n)

\* the loop of lines 61-77 over heap positions i..n; an exception ends it
RECURSIVE NewJobsLoop(_, _, _, _)
NewJobsLoop(st, i, n, t) ==
    IF i > n \/ st.exc THEN st
    ELSE NewJobsLoop(ProcessNewJob(st, i, t), i + 1, n, t)

\* line 58 starting from an empty list
CopyList_Empty(n) == <<>>

\* line 58: existing_jobs.copy(), a new list of the same n jobs
CopyList(n) == [i \in 1..n |-> i]

\* lines 49-84.  The result names the returned list (returned), the state in
\* which the call leaves the caller's two lists (existing_after, new_after),
\* new_job_count, and the return statement taken.
DeduplicateJobs(existing, incoming, t) ==
    LET n  == Len(existing)
        m  == Len(incoming)
        s0 == [heap |-> existing \o incoming, dedup |-> <<>>, hashes |-> {},
               count |-> 0, exc |-> FALSE]
        s1 == HashExistingLoop(s0, 1, n)
        s2 == IF s1.exc THEN s1 ELSE [s1 EXCEPT !.dedup = CopyList(n)]
        s3 == NewJobsLoop(s2, n + 1, n + m, t)
        existing_after == [i \in 1..n |-> s3.heap[i]]
    IN  [returned |-> IF s3.exc THEN existing_after
                      ELSE [i \in 1..Len(s3.dedup) |-> s3.heap[s3.dedup[i]]],
         existing_after |-> existing_after,
         new_after |-> [i \in 1..m |-> s3.heap[n + i]],
         count |-> s3.count,
         outcome |-> IF s3.exc THEN "fallback" ELSE "returned"]

(***************************************************************************)
(* The incoming records                                                    *)
(***************************************************************************)
D1 == <<"d", "1">>
D2 == <<"d", "2">>

\* a job that already carries a scraped_date and a status
JobA1 == [title |-> <<"a">>, company |-> <<"g">>, location |-> <<"x">>,
          url |-> <<"u">>, description |-> D1, scraped_date |-> 0,
          status |-> "scraped"]
\* the same job in another letter case and with surrounding whitespace
JobA2 == [title |-> <<"A">>, company |-> <<"G", " ">>, location |-> <<" ", "x">>,
          url |-> <<"U">>, description |-> D2, salary |-> <<"s">>,
          posted_date |-> <<"p">>]
\* the same job with an empty description
JobA3 == [title |-> <<"a">>, company |-> <<"g">>, location |-> <<"x">>,
          url |-> <<"u">>, description |-> <<>>, employment_type |-> <<"e">>]
\* another job, without any updatable field
JobB1 == [title |-> <<"b">>, company |-> <<"g">>, location |-> <<"x">>,
          url |-> <<"u">>]
\* a record without any key field
JobNoKeys == [source |-> <<"s">>]
\* a record whose key fields are empty, blank or missing
JobEmptyKeys == [title |-> <<>>, company |-> <<" ">>, url |-> <<>>,
                 description |-> D1]


(***************************************************************************)
(* Corpora read from a file that earlier runs wrote                        *)
(***************************************************************************)
\* a stored record whose id is not the fingerprint of its key fields: it was
\* written when the id was the posting's number
StoredOldId == [title |-> <<"a">>, company |-> <<"g">>, location |-> <<"x">>,
                url |-> <<"u">>, description |-> D1, id |-> <<"7">>,
                scraped_date |-> 0, status |-> "active"]
\* the same record as the present code stores it
StoredHashId == [title |-> <<"a">>, company |-> <<"g">>, location |-> <<"x">>,
                 url |-> <<"u">>, description |-> D1,
                 id |-> Md5(<<"a", "|", "g", "|", "x", "|", "u">>),
                 scraped_date |-> 0, status |-> "active"]
\* the same record stored without an id
StoredNoId == [title |-> <<"a">>, company |-> <<"g">>, location |-> <<"x">>,
               url |-> <<"u">>, description |-> D1, scraped_date |-> 0,
               status |-> "active"]

StoredCorpora == {<<StoredOldId>>, <<StoredHashId>>, <<StoredNoId>>}
Incoming == {JobA1, JobA2, JobA3, JobB1, JobNoKeys, JobEmptyKeys}

\* the batches of k records
Batches(k) == [1..k -> Incoming]

(***************************************************************************)
(* The jobs given to generate_job_hash                                     *)
(***************************************************************************)
Chars == {"a", "A", Space}

Texts == UNION {[1..k -> Chars] : k \in 0..MaxStrLen}

\* jobs with every title of at most MaxStrLen characters, or none
HashJobs ==
    LET withTitle == {[title |-> t, company |-> c, location |-> <<"x">>, url |-> u] :
                        t \in Texts, c \in {<<"g">>, <<"G">>},
                        u \in {<<"u">>, <<"u", " ">>}}
        noTitle   == {[company |-> c, location |-> <<"x">>, url |-> u,
                       description |-> D1] :
                        c \in {<<"g">>, <<"G">>}, u \in {<<"u">>, <<"u", " ">>}}
    IN  withTitle \cup noTitle

(***************************************************************************)
(* The site scraper: scrapers/google/scraper.py                            *)
(*                                                                         *)
(* One scrape_jobs call, followed from browser call to browser call.  The   *)
(* page is the environment: it shows a list of job cards, a card has a      *)
(* link or not, the list may lose cards while it is traversed, and every    *)
(* browser call may raise.  A scraped record is named by the card it was    *)
(* extracted from.                                                          *)
(***************************************************************************)
\* line 126
max_pages == 5

\* line 199
max_retries == 3

\* line 128: the condition of the page loop
PageLoopContinues_NoCap(n) == TRUE

PageLoopContinues(n) == n <= max_pages

\* line 204: for attempt in range(max_retries), `a` attempts being done
RecoveryContinues_OneMore(a) == a <= max_retries

RecoveryContinues(a) == a < max_retries

\* line 52: leaving the `async with async_playwright()` block stops the
\* Playwright driver, and with it every browser the driver launched
ContextExit_NoStop(b) == b

ContextExit(b) == IF b = "open" THEN "closed" ELSE b

\* line 73: what scrape_jobs returns from its exception handler
ExceptBatch_Partial(jobs) == jobs

ExceptBatch(jobs) == <<>>

\* lines 409-412: where the handler of _click_and_scrape_job_card goes on
AfterCardFailure_Abort(i) == [pc |-> "next_page", index |-> i]

AfterCardFailure_Retry(i) == [pc |-> "card", index |-> i]

AfterCardFailure(i) == [pc |-> "card", index |-> i + 1]

\* line 216 without the break: the attempts go on after cards were found
RecoveryStops_Never(total) == FALSE

\* line 216: the recovery loop is left when the second query found cards
RecoveryStops(total) == total > 0

\* lines 405-407 calling the function with the same index again
AfterSkippedCard_Stay(i) == i

\* lines 405-407: a card without a link is passed over
AfterSkippedCard(i) == i + 1

\* lines 141-145 without the waits: the loop goes straight to its next turn
AfterNextPageClick_NoWait(n) == IF PageLoopContinues(n) THEN "scan" ELSE "close"

\* lines 141-145: after the click the loop waits for the new page
AfterNextPageClick(n) == "settle"

\* lines 404, 407 and 412: every invocation calls the next one before it
\* returns, and the interpreter refuses a call (RecursionError) once this
\* many invocations wait; no traversal of a live page gets that deep
RecursionLimit == MaxCards + MaxFaults + 2
\* the card lists a freshly loaded page may show: k new cards, with or
\* without a link
FreshCards(k) ==
    {[i \in 1..k |-> [id |-> cards_shown + i, link |-> links[i]]] :
        links \in [1..k -> BOOLEAN]}

\* line 397 with the record put at the head of the batch
AppendScraped_AtHead(jobs, job_data_id) == <<job_data_id>> \o jobs
\* line 397: self.scraped_jobs.append(job_data); a record is known by the
\* card it was extracted from
AppendScraped(jobs, job_data_id) == Append(jobs, job_data_id)
\* the list without its p-th card
RemoveAt(list, p) ==
    [i \in 1..(Len(list) - 1) |-> IF i < p THEN list[i] ELSE list[i + 1]]

\* the list as it is, or after it lost one card
Shrinks(list) == {list} \cup {RemoveAt(list, p) : p \in 1..Len(list)}

\* a browser call raises: every call on a closed page does, and besides at
\* most MaxFaults calls in one scrape
Fails(stage) ==
    /\ dead \/ faults < MaxFaults
    /\ faults' = IF dead THEN faults ELSE faults + 1
    /\ raised' = raised \cup {stage}

\* a browser call on an open page answers
NoFail == ~dead /\ UNCHANGED <<faults, raised>>

\* what the steps before and after the card traversal leave alone
traversalVars == <<step_kind, extractions, call_stack, overflows, settles,
                   backoffs, dead, config_max_pages>>

pageVars == <<page_number, total_jobs, attempt, index, job_cards, cards_shown>>

pageHistory == <<page_exit, pages_scanned, jobs_at_scan, card_steps, invocations,
                 card_failures, activated, failed, shrunk>>

\* lines 71-73: an exception leaves the `async with` block and reaches the
\* handler of scrape_jobs
RaiseToScrapeJobs(stage) ==
    /\ Fails(stage)
    /\ browser' = ContextExit(browser)
    /\ site_batch' = ExceptBatch(scraped_jobs)
    /\ pc' = "returned"

\* lines 52-56: async_playwright() and chromium.launch
Launch ==
    /\ pc = "launch"
    /\ \/ /\ NoFail
          /\ browser' = "open"
          /\ pc' = "new_page"
          /\ UNCHANGED site_batch
       \/ RaiseToScrapeJobs("launch")
    /\ UNCHANGED <<scraped_jobs, pageVars, pageHistory, traversalVars>>
    /\ UNCHANGED <<mergeVars, hashVars, runVars, detailVars, lookupVars>>

\* lines 58-61: browser.new_page and set_default_timeout
NewPage ==
    /\ pc = "new_page"
    /\ \/ /\ NoFail
          /\ pc' = "goto"
          /\ UNCHANGED <<browser, site_batch>>
       \/ RaiseToScrapeJobs("new_page")
    /\ UNCHANGED <<scraped_jobs, pageVars, pageHistory, traversalVars>>
    /\ UNCHANGED <<mergeVars, hashVars, runVars, detailVars, lookupVars>>

\* lines 82-85: page.goto; an exception is logged at line 115 and
\* _perform_search_and_scrape returns
Goto ==
    /\ pc = "goto"
    /\ \/ /\ NoFail
          /\ pc' = "expand"
       \/ /\ Fails("navigation")
          /\ pc' = "close"
    /\ UNCHANGED <<browser, site_batch, scraped_jobs, pageVars, pageHistory,
                   traversalVars>>
    /\ UNCHANGED <<mergeVars, hashVars, runVars, detailVars, lookupVars>>

\* lines 93-112 and 125-128: the first "Learn more" is clicked, or not
\* found; then _start_multi_page_scraping starts with page 1
Expand ==
    /\ pc = "expand"
    /\ \/ \* evaluate or wait_for_load_state raises: line 115
          /\ Fails("expand")
          /\ pc' = "close"
          /\ UNCHANGED pageVars
       \/ \* clicked, and the result list loads
          /\ NoFail
          /\ \E k \in 0..(MaxCards - cards_shown) : \E list \in FreshCards(k) :
                /\ job_cards' = list
                /\ cards_shown' = cards_shown + k
          /\ page_number' = 1
          /\ pc' = IF PageLoopContinues(1) THEN "scan" ELSE "close"
          /\ UNCHANGED <<total_jobs, attempt, index>>
       \/ \* not found
          /\ NoFail
          /\ page_number' = 1
          /\ pc' = IF PageLoopContinues(1) THEN "scan" ELSE "close"
          /\ UNCHANGED <<total_jobs, attempt, index, job_cards, cards_shown>>
    /\ UNCHANGED <<browser, site_batch, scraped_jobs, pageHistory, traversalVars>>
    /\ UNCHANGED <<mergeVars, hashVars, runVars, detailVars, lookupVars>>

\* lines 157-200: _start_recursive_scraping scans the page; without a card
\* it collects the page's description and turns to the recovery attempts
Scan ==
    /\ pc = "scan"
    /\ pages_scanned' = pages_scanned + 1
    /\ jobs_at_scan' = Len(scraped_jobs)
    /\ card_steps' = 0
    /\ invocations' = 0
    /\ card_failures' = 0
    /\ shrunk' = FALSE
    /\ attempt' = 0
    /\ index' = 0
    /\ step_kind' = "none"
    /\ call_stack' = <<>>
    /\ backoffs' = 0
    /\ \/ \* query_selector_all or the evaluate of line 168 raises: line 234
          /\ Fails("traversal")
          /\ total_jobs' = 0
          /\ page_exit' = "error"
          /\ pc' = "next_page"
       \/ /\ NoFail
          /\ total_jobs' = Len(job_cards)
          /\ page_exit' = "none"
          /\ pc' = IF Len(job_cards) = 0 THEN "recover" ELSE "card"
    /\ UNCHANGED <<browser, site_batch, scraped_jobs, page_number, job_cards,
                   cards_shown, activated, failed>>
    /\ UNCHANGED <<extractions, overflows, settles, dead, config_max_pages>>
    /\ UNCHANGED <<mergeVars, hashVars, runVars, detailVars, lookupVars>>

\* where the recovery loop goes after an attempt that left total_jobs at 0:
\* it waits (lines 223, 226), then the next attempt, or the return of lines
\* 225-228
AfterEmptyAttempt ==
    /\ backoffs' = backoffs + 1
    /\ IF RecoveryContinues(attempt + 1)
       THEN /\ pc' = "recover"
            /\ page_exit' = "none"
       ELSE /\ pc' = "next_page"
            /\ page_exit' = "exhausted"

\* lines 204-228 and 248-315: one recovery attempt.  _click_first_learn_more
\* catches its own exceptions and answers False, also when it clicked and
\* the wait of line 306 raised; the cards are then not counted again.
Recover ==
    /\ pc = "recover"
    /\ attempt' = attempt + 1
    /\ \/ \* not clicked
          /\ NoFail
          /\ AfterEmptyAttempt
          /\ UNCHANGED <<total_jobs, job_cards, cards_shown>>
       \/ \* clicked, the page shows k cards, and line 306 raises
          /\ Fails("recovery")
          /\ \E k \in 0..(MaxCards - cards_shown) : \E list \in FreshCards(k) :
                /\ job_cards' = list
                /\ cards_shown' = cards_shown + k
          /\ AfterEmptyAttempt
          /\ UNCHANGED total_jobs
       \/ \* clicked, and the second query_selector_all raises: line 234
          /\ Fails("traversal")
          /\ pc' = "next_page"
          /\ page_exit' = "error"
          /\ UNCHANGED <<total_jobs, job_cards, cards_shown, backoffs>>
       \/ \* clicked, and the page shows k cards
          /\ NoFail
          /\ \E k \in 0..(MaxCards - cards_shown) : \E list \in FreshCards(k) :
                /\ job_cards' = list
                /\ cards_shown' = cards_shown + k
                /\ total_jobs' = k
                /\ IF RecoveryStops(k)
                   THEN /\ pc' = "card"
                        /\ page_exit' = "none"
                        /\ UNCHANGED backoffs
                   ELSE AfterEmptyAttempt
    /\ UNCHANGED <<browser, site_batch, scraped_jobs, page_number, index,
                   pages_scanned, jobs_at_scan, card_steps, invocations,
                   card_failures, activated, failed, shrunk>>
    /\ UNCHANGED <<step_kind, extractions, call_stack, overflows, settles, dead,
                   config_max_pages>>
    /\ UNCHANGED <<mergeVars, hashVars, runVars, detailVars, lookupVars>>

\* lines 409-412: the handler of one invocation
CardHandler(ids) ==
    /\ card_failures' = card_failures + 1
    /\ failed' = failed \cup ids
    /\ pc' = AfterCardFailure(index).pc
    /\ index' = AfterCardFailure(index).index
    /\ page_exit' = IF AfterCardFailure(index).pc = "card" THEN "none" ELSE "error"
    /\ call_stack' = Append(call_stack, "except")
    /\ UNCHANGED <<scraped_jobs, extractions>>

\* lines 362-412: one invocation of _click_and_scrape_job_card, up to the
\* call it makes for the next index.  `live` is the list the page shows when
\* the click is evaluated.
CardStep ==
    /\ pc = "card"
    /\ Len(call_stack) < RecursionLimit
    /\ invocations' = invocations + 1
    /\ \/ \* line 364 raises
          /\ Fails("traversal")
          /\ CardHandler(IF index < Len(job_cards)
                         THEN {job_cards[index + 1].id} ELSE {})
          /\ step_kind' = "query_failed"
          /\ UNCHANGED <<job_cards, card_steps, activated, shrunk>>
       \/ \* lines 366-368: every waiting invocation returns
          /\ index >= Len(job_cards)
          /\ NoFail
          /\ pc' = "next_page"
          /\ page_exit' = "cards_done"
          /\ step_kind' = "done"
          /\ call_stack' = <<>>
          /\ UNCHANGED <<index, job_cards, scraped_jobs, card_steps, card_failures,
                         activated, failed, shrunk, extractions>>
       \/ /\ index < Len(job_cards)
          /\ ~dead
          /\ card_steps' = card_steps + 1
          /\ \E live \in Shrinks(job_cards) :
                /\ job_cards' = live
                /\ shrunk' = (shrunk \/ live # job_cards)
                /\ \/ \* line 371 raises
                      /\ Fails("traversal")
                      /\ CardHandler({job_cards[index + 1].id})
                      /\ step_kind' = "click_failed"
                      /\ UNCHANGED activated
                   \/ \* no card or no link: lines 405-407
                      /\ IF index < Len(live) THEN ~live[index + 1].link ELSE TRUE
                      /\ NoFail
                      /\ pc' = "card"
                      /\ index' = AfterSkippedCard(index)
                      /\ page_exit' = "none"
                      /\ step_kind' = "no_link"
                      /\ call_stack' = Append(call_stack, "try")
                      /\ UNCHANGED <<scraped_jobs, card_failures, activated, failed,
                                     extractions>>
                   \/ \* clicked: lines 387-404
                      /\ index < Len(live)
                      /\ live[index + 1].link
                      /\ activated' = activated \cup {live[index + 1].id}
                      /\ \/ \* a wait raises
                            /\ Fails("traversal")
                            /\ CardHandler({live[index + 1].id})
                            /\ step_kind' = "wait_failed"
                         \/ \* _extract_job_data answers a record or None
                            /\ NoFail
                            /\ extractions' = extractions + 1
                            /\ \E extracted \in BOOLEAN :
                                 /\ scraped_jobs' =
                                      IF extracted
                                      THEN AppendScraped(scraped_jobs,
                                                         live[index + 1].id)
                                      ELSE scraped_jobs
                                 /\ step_kind' = IF extracted THEN "record"
                                                 ELSE "no_data"
                            /\ pc' = "card"
                            /\ index' = index + 1
                            /\ page_exit' = "none"
                            /\ call_stack' = Append(call_stack, "try")
                            /\ UNCHANGED <<card_failures, failed>>
    /\ UNCHANGED <<browser, site_batch, page_number, total_jobs, attempt,
                   cards_shown, pages_scanned, jobs_at_scan>>
    /\ UNCHANGED <<overflows, settles, backoffs, dead, config_max_pages>>
    /\ UNCHANGED <<mergeVars, hashVars, runVars, detailVars, lookupVars>>

\* lines 404-412 when RecursionLimit invocations wait: the call for the next
\* index raises RecursionError.  An invocation that made its call from the
\* handler lets it pass; the innermost one that called from the try block
\* catches it at line 409 and calls the function for its own index + 1; when
\* there is none the error reaches line 233 and the page is left.
RecursionLimitReached ==
    /\ pc = "card"
    /\ Len(call_stack) >= RecursionLimit
    /\ overflows' = overflows + 1
    /\ raised' = raised \cup {"recursion"}
    /\ LET catchers == {k \in 1..Len(call_stack) : call_stack[k] = "try"}
       IN  IF catchers = {}
           THEN /\ pc' = "next_page"
                /\ page_exit' = "error"
                /\ call_stack' = <<>>
                /\ UNCHANGED index
           ELSE LET k == CHOOSE x \in catchers : \A y \in catchers : y <= x
                IN  /\ pc' = "card"
                    /\ page_exit' = "none"
                    /\ call_stack' = [i \in 1..k |->
                                         IF i = k THEN "except" ELSE call_stack[i]]
                    /\ index' = k
    /\ UNCHANGED <<browser, site_batch, scraped_jobs, page_number, total_jobs,
                   attempt, job_cards, cards_shown, faults, pages_scanned,
                   jobs_at_scan, card_steps, invocations, card_failures,
                   activated, failed, shrunk>>
    /\ UNCHANGED <<step_kind, extractions, settles, backoffs, dead,
                   config_max_pages>>
    /\ UNCHANGED <<mergeVars, hashVars, runVars, detailVars, lookupVars>>

\* the page is closed while its cards are traversed: from now on every call
\* on it raises
PageCloses ==
    /\ pc = "card"
    /\ ~dead
    /\ faults < MaxFaults
    /\ faults' = faults + 1
    /\ dead' = TRUE
    /\ UNCHANGED <<pc, browser, site_batch, scraped_jobs, raised, pageVars,
                   pageHistory>>
    /\ UNCHANGED <<step_kind, extractions, call_stack, overflows, settles,
                   backoffs, config_max_pages>>
    /\ UNCHANGED <<mergeVars, hashVars, runVars, detailVars, lookupVars>>

\* lines 135-141 and 327-352: _goto_next_page answers whether it clicked the
\* next-page link (False when it raised); after a click the loop counts the
\* page
GotoNextPage ==
    /\ pc = "next_page"
    /\ page_exit' = "none"
    /\ \/ \* no next page: lines 137-139
          /\ NoFail
          /\ pc' = "close"
          /\ UNCHANGED <<page_number, job_cards, cards_shown>>
       \/ \* the evaluate raises: lines 350-352, then lines 137-139
          /\ Fails("next_page")
          /\ pc' = "close"
          /\ UNCHANGED <<page_number, job_cards, cards_shown>>
       \/ \* clicked
          /\ NoFail
          /\ page_number' = page_number + 1
          /\ \E k \in 0..(MaxCards - cards_shown) : \E list \in FreshCards(k) :
                /\ job_cards' = list
                /\ cards_shown' = cards_shown + k
          /\ pc' = AfterNextPageClick(page_number + 1)
    /\ UNCHANGED <<browser, site_batch, scraped_jobs, total_jobs, attempt, index,
                   pages_scanned, jobs_at_scan, card_steps, invocations,
                   card_failures, activated, failed, shrunk, traversalVars>>
    /\ UNCHANGED <<mergeVars, hashVars, runVars, detailVars, lookupVars>>

\* lines 144-145 and 128: the loop waits for the network to be idle and two
\* seconds more, then tests the page counter
Settle ==
    /\ pc = "settle"
    /\ \/ \* line 144 raises: line 148
          /\ Fails("pagination")
          /\ pc' = "close"
          /\ UNCHANGED settles
       \/ /\ NoFail
          /\ settles' = settles + 1
          /\ pc' = IF PageLoopContinues(page_number) THEN "scan" ELSE "close"
    /\ UNCHANGED <<browser, site_batch, scraped_jobs, pageVars, pageHistory>>
    /\ UNCHANGED <<step_kind, extractions, call_stack, overflows, backoffs, dead,
                   config_max_pages>>
    /\ UNCHANGED <<mergeVars, hashVars, runVars, detailVars, lookupVars>>

\* lines 66-69: browser.close, then the batch is returned; the browser of a
\* closed page may still close
CloseBrowser ==
    /\ pc = "close"
    /\ \/ /\ UNCHANGED <<faults, raised>>
          /\ browser' = "closed"
          /\ site_batch' = scraped_jobs
          /\ pc' = "returned"
       \/ RaiseToScrapeJobs("close")
    /\ UNCHANGED <<scraped_jobs, pageVars, pageHistory, traversalVars>>
    /\ UNCHANGED <<mergeVars, hashVars, runVars, detailVars, lookupVars>>

\* the task is cancelled or interrupted while it waits for the browser:
\* CancelledError and KeyboardInterrupt are no Exception, so no handler of the
\* scraper catches them and they leave scrape_jobs through the `async with`
Interrupt ==
    /\ pc \in {"new_page", "goto", "expand", "scan", "recover", "card",
               "next_page", "settle", "close"}
    /\ pc' = "interrupted"
    /\ browser' = ContextExit(browser)
    /\ page_exit' = "none"
    /\ UNCHANGED <<faults, raised>>
    /\ UNCHANGED <<site_batch, scraped_jobs, pageVars, pages_scanned, jobs_at_scan,
                   card_steps, invocations, card_failures, activated, failed, shrunk,
                   traversalVars>>
    /\ UNCHANGED <<mergeVars, hashVars, runVars, detailVars, lookupVars>>

\* no card traversal has taken place
TraversalIdle ==
    /\ step_kind = "none"
    /\ extractions = 0
    /\ call_stack = <<>>
    /\ overflows = 0
    /\ settles = 0
    /\ backoffs = 0
    /\ dead = FALSE

\* no scrape_jobs call is under way
ScrapeIdle ==
    /\ pc = "idle"
    /\ browser = "none"
    /\ page_number = 0
    /\ total_jobs = 0
    /\ attempt = 0
    /\ index = 0
    /\ job_cards = <<>>
    /\ scraped_jobs = <<>>
    /\ site_batch = <<>>
    /\ raised = {}
    /\ page_exit = "none"
    /\ pages_scanned = 0
    /\ jobs_at_scan = 0
    /\ card_steps = 0
    /\ invocations = 0
    /\ card_failures = 0
    /\ activated = {}
    /\ failed = {}
    /\ shrunk = FALSE
    /\ cards_shown = 0
    /\ faults = 0
    /\ TraversalIdle
    /\ config_max_pages = max_pages

(***************************************************************************)
(* The description of a job: scraper.py, lines 472-605                     *)
(*                                                                         *)
(* The detail view is the sequence of the sibling elements that hold the    *)
(* description: headings (h3), lists (ul), paragraphs (p) and others.  A    *)
(* heading is given by the labels its text contains, whatever the letter    *)
(* case; a list by the texts of its items, a paragraph by its text.         *)
(***************************************************************************)
Newline == "\n"

\* lines 486, 491, 496, 501: the labels _extract_job_description looks for
LabelSet == {"Minimum qualifications", "Preferred qualifications",
             "About the job", "Responsibilities"}

\* the texts of list items and paragraphs, trimmed
ItemTexts == {<<"x">>, <<"y">>}

Heading(contains) == [tag |-> "H3", labels |-> contains, texts |-> <<>>]

List(items) == [tag |-> "UL", labels |-> {}, texts |-> items]

Paragraph(text) == [tag |-> "P", labels |-> {}, texts |-> <<text>>]

Division == [tag |-> "DIV", labels |-> {}, texts |-> <<>>]

\* the elements a detail view is made of
Elements ==
    {Heading({})} \cup {Heading({l}) : l \in LabelSet}
    \cup {List(items) : items \in UNION {[1..k -> ItemTexts] : k \in 0..MaxItems}}
    \cup {Paragraph(t) : t \in ItemTexts}
    \cup {Division}

\* the detail views of at most MaxDom elements
DetailViews == UNION {[1..k -> Elements] : k \in 0..MaxDom}

\* sep.join(parts)
RECURSIVE JoinWith(_, _)
JoinWith(parts, sep) ==
    IF parts = <<>> THEN <<>>
    ELSE IF Len(parts) = 1 THEN parts[1]
    ELSE parts[1] \o sep \o JoinWith(Tail(parts), sep)

\* lines 523-531 and 573-581: the position of the first h3 whose text
\* contains heading_text, 0 when there is none
TargetH3(view, heading_text) ==
    LET hits == {i \in 1..Len(view) :
                    view[i].tag = "H3" /\ heading_text \in view[i].labels}
    IN  IF hits = {} THEN 0 ELSE CHOOSE i \in hits : \A j \in hits : i <= j

\* lines 584-594: the texts of the p elements that follow the h3 at position
\* h, up to the next h3
RECURSIVE ParagraphsFrom(_, _)
ParagraphsFrom(view, i) ==
    IF i > Len(view) THEN <<>>
    ELSE IF view[i].tag = "H3" THEN <<>>
    ELSE IF view[i].tag = "P" THEN view[i].texts \o ParagraphsFrom(view, i + 1)
    ELSE ParagraphsFrom(view, i + 1)

\* lines 511-559: _extract_section_content.  `handed`: the element that
\* page.evaluate answers at line 537 can be given to the evaluate of line 543
\* as the element it is; otherwise next_element is None or no element and the
\* function answers "".
ExtractSectionContent(view, heading_text, handed) ==
    LET h == TargetH3(view, heading_text)
    IN  IF h = 0 THEN <<>>
        ELSE IF h = Len(view) THEN <<>>
        ELSE IF ~handed THEN <<>>
        ELSE IF view[h + 1].tag = "UL"
             THEN JoinWith(view[h + 1].texts, <<Newline>>)
             ELSE <<>>

\* lines 561-605: _extract_paragraph_content
ExtractParagraphContent(view, heading_text) ==
    LET h == TargetH3(view, heading_text)
    IN  IF h = 0 THEN <<>>
        ELSE JoinWith(ParagraphsFrom(view, h + 1), <<Newline, Newline>>)

\* lines 486-487, 491-492, 496-497: a section with content adds its title,
\* its content and an empty line
SectionParts(title, content) ==
    IF Truthy(content) THEN <<<<title>>, content, <<>>>> ELSE <<>>

\* lines 482-505: _extract_job_description.  `fault` is the section whose
\* browser call raises, if it is one of the four: that section is "" (lines
\* 557-559 and 603-605).
ExtractJobDescription(view, handed, fault) ==
    LET Section(label, content) == IF fault = label THEN <<>> ELSE content
        mq == Section("Minimum qualifications",
                      ExtractSectionContent(view, "Minimum qualifications", handed))
        pq == Section("Preferred qualifications",
                      ExtractSectionContent(view, "Preferred qualifications", handed))
        aj == Section("About the job",
                      ExtractParagraphContent(view, "About the job"))
        rs == Section("Responsibilities",
                      ExtractSectionContent(view, "Responsibilities", handed))
    IN  [min_qual |-> mq, pref_qual |-> pq, about_job |-> aj,
         responsibilities |-> rs,
         description |->
            JoinWith(SectionParts("Minimum qualifications:", mq)
                     \o SectionParts("Preferred qualifications:", pq)
                     \o SectionParts("About the job:", aj)
                     \o (IF Truthy(rs) THEN <<<<"Responsibilities:">>, rs>> ELSE <<>>),
                     <<Newline>>)]

(***************************************************************************)
(* The record of a job: scraper.py, lines 414-470                          *)
(*                                                                         *)
(* An element that a query may or may not find is the sequence of the       *)
(* elements found: empty, or the element's text.  In the same way the       *)
(* answer of _extract_job_data is the sequence of the records it answers:   *)
(* empty for None, or the one record.                                       *)
(***************************************************************************)
extractVars == <<current_url, title_element, location_elements, level_element,
                 query_fault, job_data, pending>>

\* \d of line 430
Digits == {"0", "1", "2", "3", "4", "5", "6", "7", "8", "9"}

\* the addresses of detail views: with a run of four digits, with a run of
\* five, and with a short run before a run of six and a later one
Urls == {<<"j", "1", "2", "3", "4">>,
         <<"j", "1", "2", "3", "4", "5">>,
         <<"1", "2", "-", "3", "4", "5", "6", "7", "8", "?", "9">>}

\* the texts of the title, location and level elements, as inner_text gives them
TitleElements == {<<>>, <<<<Space, "B", Space>>>>}

LocationLists == {<<>>, <<<<"x", Space>>, <<"y">>>>}

LevelElements == {<<>>, <<<<"m", Space>>>>}

\* the detail views a posting shows, one run or another
PostingViews ==
    {<<>>,
     <<Heading({"Minimum qualifications"}), List(<<<<"x">>>>)>>,
     <<Heading({"Minimum qualifications"}), List(<<<<"y">>>>)>>,
     <<Heading({"Responsibilities"}), Heading({"About the job"}),
       Paragraph(<<"x">>)>>}

\* the browser call of _extract_job_data that raises: none, one of the three
\* element queries of lines 434-447, or one inside a section of the description
OuterFaults == {"title", "location", "level"}

QueryFaults == {"none"} \cup OuterFaults \cup LabelSet

\* the length of the run of digits that starts at position i
RECURSIVE DigitRun(_, _)
DigitRun(url, i) ==
    IF i > Len(url) THEN 0
    ELSE IF url[i] \in Digits THEN 1 + DigitRun(url, i + 1)
    ELSE 0

\* lines 430-431: re.search(r'\d{5,}', current_url), the leftmost match at its
\* greatest length, None without a match
JobIdMatch(url) ==
    LET starts == {i \in 1..Len(url) : DigitRun(url, i) >= 5}
    IN  IF starts = {} THEN None
        ELSE LET i == CHOOSE x \in starts : \A y \in starts : x <= y
             IN  SubSeq(url, i, i + DigitRun(url, i) - 1)

\* lines 435 and 447: await element.inner_text() if element else ""
InnerTextOrEmpty(element) == IF element = <<>> THEN <<>> ELSE element[1]

\* lines 438-443: the stripped texts joined with '; '
Locations(elements) ==
    JoinWith([i \in 1..Len(elements) |-> Strip(elements[i])], <<";", Space>>)

\* lines 468-470 letting the exception through
ExtractFailure_Raise(fault) == <<"raise", fault>>
\* lines 468-470: any exception is logged and None is returned
ExtractFailure(fault) == <<>>

\* lines 426-470: _extract_job_data at clock reading t
ExtractJobData(url, title_el, loc_els, level_el, view, handed, fault, t) ==
    LET title == InnerTextOrEmpty(title_el)
        level == InnerTextOrEmpty(level_el)
    IN  IF fault \in OuterFaults THEN ExtractFailure(fault)
        ELSE <<[jobId |-> JobIdMatch(url),
              title |-> Strip(title),
              company |-> <<"G", "o", "o", "g", "l", "e">>,
              location |-> Locations(loc_els),
              level |-> Strip(level),
              jobDescription |-> ExtractJobDescription(view, handed, fault).description,
              url |-> url,
              scraped_date |-> t,
              source |-> <<"google_career">>,
              status |-> "active"]>>

\* no detail view is being extracted
ExtractIdle ==
    /\ current_url = <<>>
    /\ title_element = <<>>
    /\ location_elements = <<>>
    /\ level_element = <<>>
    /\ query_fault = "none"
    /\ job_data = <<>>
    /\ pending = FALSE
\* _extract_job_description is called on the loaded detail view
ExtractDescription ==
    /\ ~described
    /\ described' = TRUE
    /\ LET r == ExtractJobDescription(detail_view, handed_over, "none")
       IN  /\ min_qual' = r.min_qual
           /\ pref_qual' = r.pref_qual
           /\ about_job' = r.about_job
           /\ responsibilities' = r.responsibilities
           /\ job_description' = r.description
    /\ UNCHANGED <<detail_view, handed_over, extractVars>>
    /\ UNCHANGED <<mergeVars, hashVars, scrapeVars, runVars, lookupVars>>

\* no detail view is loaded
DetailIdle ==
    /\ detail_view = <<>>
    /\ handed_over = FALSE
    /\ described = FALSE
    /\ min_qual = <<>>
    /\ pref_qual = <<>>
    /\ about_job = <<>>
    /\ responsibilities = <<>>
    /\ job_description = <<>>
    /\ ExtractIdle

(***************************************************************************)
(* The orchestrator and the corpus file: main.py, utils/file_utils.py      *)
(*                                                                         *)
(* A file is absent, holds a JSON document, is empty (opened for writing    *)
(* and not written yet) or holds the beginning of a document.  A site is    *)
(* met in one of the conditions below; the scraper object lives inside      *)
(* _run_website_scraper, so only the batch it returns reaches the run.      *)
(***************************************************************************)
Absent == [kind |-> "absent"]

Empty == [kind |-> "empty"]

Partial == [kind |-> "partial"]

Json(data) == [kind |-> "json", data |-> data]

\* main.py:131  the default given to load_json
DefaultCorpus == [jobs |-> <<>>, metadata |-> <<>>]

\* file_utils.py:25-43 with a default: a missing file (26-28), a file that is
\* no JSON document (34-37) and a file whose reading raises (38-41) all give
\* the default
LoadJson(file, default, unreadable) ==
    IF file.kind = "json" /\ ~unreadable THEN file.data ELSE default

\* main.py:139-146
UpdatedData(jobs, count, t) ==
    [jobs |-> jobs,
     metadata |-> [total_jobs |-> Len(jobs), new_jobs_this_run |-> count,
                   last_updated |-> t]]

\* the conditions a site of enabled_websites is met in
SiteConditions ==
    {"no_config",       \* main.py:50-55  config.json missing or no JSON
     "config_error",    \* main.py:48     open raises another exception
     "disabled",        \* main.py:67     website_info.enabled is false
     "import_error",    \* main.py:74     no scraper module
     "no_class",        \* main.py:77     the module has no such class
     "init_error",      \* main.py:78     the constructor raises
     "scraped"}         \* main.py:80     scrape_jobs returns its batch

\* the batches scrape_jobs returns; the empty one is also what it returns
\* from its exception handler
SiteBatches == {<<>>, <<JobA1>>, <<JobB1>>, <<JobA2, JobB1>>}

\* main.py:57-90: what one _run_website_scraper call does when it meets the
\* site in condition cond and scrape_jobs, if called, returns batch.
\* `raises`: an exception leaves the call; `error`: an error is logged.
RunWebsiteScraper_IgnoreEnabled(cond, batch) ==
    [jobs |-> IF cond \in {"scraped", "disabled"} THEN batch ELSE <<>>,
     raises |-> cond = "config_error",
     imported |-> cond \in {"disabled", "no_class", "init_error", "scraped"},
     instantiated |-> cond \in {"disabled", "scraped"},
     session |-> cond \in {"disabled", "scraped"},
     error |-> cond \in {"no_config", "import_error", "no_class", "init_error"}]

RunWebsiteScraper(cond, batch) ==
    [jobs |-> IF cond = "scraped" THEN batch ELSE <<>>,
     raises |-> cond = "config_error",
     imported |-> cond \in {"no_class", "init_error", "scraped"},
     instantiated |-> cond = "scraped",
     session |-> cond = "scraped",
     error |-> cond \in {"no_config", "import_error", "no_class", "init_error"}]

\* main.py:104-117: the site the loop turns to after site i of n, when the
\* call raised (lines 115-117) or not
NextSite_Break(i, n, raises) == IF raises THEN n + 1 ELSE i + 1

NextSite(i, n, raises) == i + 1

\* main.py:120: whether the run processes what it scraped
ProcessesJobs_Always(jobs) == TRUE

ProcessesJobs(jobs) == Len(jobs) > 0

\* the states the run may find config.json in
GlobalConfigs == {"ok", "missing", "malformed"}

\* main.py:109: the values of global_settings.global_delay (5 when not given)
GlobalDelays == {0, 5}

\* main.py:34-42 with a default configuration in place of the exceptions
LoadGlobalConfig_Default(cfg) == [raises |-> FALSE]

\* main.py:34-42: a missing file raises FileNotFoundError, a file that is no
\* JSON document ValueError
LoadGlobalConfig(cfg) == [raises |-> cfg \in {"missing", "malformed"}]

\* main.py:109-113 without the sleep
CoolsDown_Never(delay, raises) == FALSE

\* main.py:109-113: the loop sleeps after a call that returned when the
\* delay is positive; a call that raised leaves the try block before
CoolsDown(delay, raises) == delay > 0 /\ ~raises

\* main.py:104 and 120: where the run goes when it has dealt with a site:
\* the next site, or the choice of line 120
AfterSite(next, jobs) ==
    IF next <= Len(enabled_websites) THEN "site"
    ELSE IF ProcessesJobs(jobs) THEN "load" ELSE "ended"

\* main.py:171-189 and 94-102: main constructs the tracker, which reads the
\* global configuration, and a run starts with n enabled websites.  An
\* exception of the constructor is caught at line 185 and the program ends.
RunStart ==
    /\ run_pc \in {"idle", "ended", "killed", "aborted"}
    /\ \E cfg \in GlobalConfigs :
          /\ global_config' = cfg
          /\ IF LoadGlobalConfig(cfg).raises
             THEN /\ sites_seen + 1 <= MaxSites
                  /\ sites_seen' = sites_seen + 1
                  /\ enabled_websites' = <<>>
                  /\ global_delay' = 0
                  /\ run_pc' = "aborted"
             ELSE /\ global_delay' \in GlobalDelays
                  /\ \E n \in 0..(MaxSites - sites_seen) :
                        /\ sites_seen + (IF n = 0 THEN 1 ELSE n) <= MaxSites
                        /\ sites_seen' = sites_seen + (IF n = 0 THEN 1 ELSE n)
                        /\ enabled_websites' = [i \in 1..n |-> i]
                        /\ run_pc' = IF n = 0 THEN "ended" ELSE "site"
    /\ website' = 1
    /\ all_jobs' = <<>>
    /\ site_log' = <<>>
    /\ file_at_run_start' = corpus_file
    /\ file_before' = corpus_file
    /\ updated_data' = DefaultCorpus
    /\ save_result' = "none"
    /\ UNCHANGED <<corpus_file, last_run, open_sessions>>
    /\ UNCHANGED <<mergeVars, hashVars, scrapeVars, detailVars, lookupVars>>

\* main.py:106-117: the call for the site has come to its end in condition
\* cond with the given batch: the batch is added to all_jobs unless the call
\* raised, and the loop sleeps or turns to the next site
SiteCompleted(cond, batch) ==
    LET r == RunWebsiteScraper(cond, batch)
        jobs == IF r.raises THEN all_jobs ELSE all_jobs \o r.jobs
        next == NextSite(website, Len(enabled_websites), r.raises)
    IN  /\ all_jobs' = jobs
        /\ site_log' = Append(site_log,
                          [website |-> website, cond |-> cond,
                           jobs |-> r.jobs, instantiated |-> r.instantiated,
                           session |-> r.session,
                           error |-> r.error \/ r.raises,
                           cooled |-> FALSE])
        /\ website' = next
        /\ run_pc' = IF CoolsDown(global_delay, r.raises) THEN "cooldown"
                     ELSE AfterSite(next, jobs)

\* main.py:104-107 and 57-80: one iteration of the loop over
\* enabled_websites calls _run_website_scraper, which ends without a scrape
\* or awaits scrape_jobs
RunSite ==
    /\ run_pc = "site"
    /\ \E cond \in SiteConditions :
          IF cond = "scraped"
          THEN /\ run_pc' = "scraping"
               /\ open_sessions' = open_sessions \cup {website}
               /\ UNCHANGED <<all_jobs, site_log, website>>
          ELSE /\ SiteCompleted(cond, <<>>)
               /\ UNCHANGED open_sessions
    /\ UNCHANGED <<enabled_websites, corpus_file, file_at_run_start, file_before,
                   updated_data, save_result, last_run, sites_seen,
                   global_config, global_delay>>
    /\ UNCHANGED <<mergeVars, hashVars, scrapeVars, detailVars, lookupVars>>

\* main.py:80-83 and 106-107: scrape_jobs returns its batch, its browser
\* session closed
ScrapeReturns ==
    /\ run_pc = "scraping"
    /\ open_sessions' = open_sessions \ {website}
    /\ \E batch \in SiteBatches : SiteCompleted("scraped", batch)
    /\ UNCHANGED <<enabled_websites, corpus_file, file_at_run_start, file_before,
                   updated_data, save_result, last_run, sites_seen,
                   global_config, global_delay>>
    /\ UNCHANGED <<mergeVars, hashVars, scrapeVars, detailVars, lookupVars>>

\* main.py:111-113: asyncio.sleep(global_delay) returns
Cooldown ==
    /\ run_pc = "cooldown"
    /\ site_log' = [site_log EXCEPT ![Len(site_log)].cooled = TRUE]
    /\ run_pc' = AfterSite(website, all_jobs)
    /\ UNCHANGED <<enabled_websites, website, all_jobs, corpus_file,
                   file_at_run_start, file_before, updated_data, save_result,
                   last_run, sites_seen, global_config, global_delay,
                   open_sessions>>
    /\ UNCHANGED <<mergeVars, hashVars, scrapeVars, detailVars, lookupVars>>

\* main.py:127-146: the corpus is loaded, the scraped jobs are merged into
\* it and the document to save is built; reading the file may raise
LoadAndMerge ==
    /\ run_pc = "load"
    /\ \E unreadable \in BOOLEAN :
       LET existing == Get(LoadJson(corpus_file, DefaultCorpus, unreadable),
                           "jobs", <<>>)
           r == DeduplicateJobs(existing, all_jobs, now + 1)
           count == Len(r.returned) - Len(r.existing_after)
       IN  /\ now' = now + 1
           /\ existing_in' = existing
           /\ new_jobs_in' = all_jobs
           /\ existing_jobs' = r.existing_after
           /\ new_jobs' = r.new_after
           /\ deduplicated_jobs' = r.returned
           /\ new_job_count' = r.count
           /\ new_jobs_this_run' = count
           /\ outcome' = r.outcome
           /\ updated_data' = UpdatedData(r.returned, count, now + 1)
    /\ run_pc' = "save"
    /\ UNCHANGED <<remerged, records_seen>>
    /\ UNCHANGED <<enabled_websites, website, all_jobs, site_log, corpus_file,
                   file_at_run_start, file_before, save_result, last_run,
                   sites_seen, global_config, global_delay,
                   open_sessions>>
    /\ UNCHANGED <<hashVars, scrapeVars, detailVars, lookupVars>>

\* file_utils.py:58-62 for the corpus: the directory is made and the file is
\* opened for writing; an exception there is logged and False is returned
SaveOpen ==
    /\ run_pc = "save"
    /\ file_before' = corpus_file
    /\ \/ /\ corpus_file' = Empty
          /\ run_pc' = "write"
          /\ UNCHANGED save_result
       \/ /\ save_result' = "failed"
          /\ run_pc' = "status"
          /\ UNCHANGED corpus_file
    /\ UNCHANGED <<enabled_websites, website, all_jobs, site_log,
                   file_at_run_start, updated_data, last_run, sites_seen, global_config, global_delay,
                   open_sessions>>
    /\ UNCHANGED <<mergeVars, hashVars, scrapeVars, detailVars, lookupVars>>

\* file_utils.py:63-69 for the corpus: json.dump writes the document into the
\* open file; when it raises, what it wrote so far stays on disk
SaveWrite ==
    /\ run_pc = "write"
    /\ \/ /\ corpus_file' = Json(updated_data)
          /\ save_result' = "saved"
       \/ /\ corpus_file' \in {Empty, Partial}
          /\ save_result' = "failed"
    /\ run_pc' = "status"
    /\ UNCHANGED <<enabled_websites, website, all_jobs, site_log,
                   file_at_run_start, file_before, updated_data, last_run,
                   sites_seen, global_config, global_delay,
                   open_sessions>>
    /\ UNCHANGED <<mergeVars, hashVars, scrapeVars, detailVars, lookupVars>>

\* the process is killed while json.dump writes the corpus
Kill ==
    /\ run_pc = "write"
    /\ corpus_file' \in {Empty, Partial}
    /\ run_pc' = "killed"
    /\ UNCHANGED <<enabled_websites, website, all_jobs, site_log,
                   file_at_run_start, file_before, updated_data, save_result,
                   last_run, sites_seen, global_config, global_delay,
                   open_sessions>>
    /\ UNCHANGED <<mergeVars, hashVars, scrapeVars, detailVars, lookupVars>>

\* main.py:152 and 156-164: the status file is written, whatever save_json
\* returned for the corpus; its own save_json may fail as well
UpdateRunStatus ==
    /\ run_pc = "status"
    /\ \/ last_run' = [new_jobs_found |-> new_jobs_this_run, last_run_time |-> now]
       \/ UNCHANGED last_run
    /\ run_pc' = "ended"
    /\ UNCHANGED <<enabled_websites, website, all_jobs, site_log, corpus_file,
                   file_at_run_start, file_before, updated_data, save_result,
                   sites_seen, global_config, global_delay,
                   open_sessions>>
    /\ UNCHANGED <<mergeVars, hashVars, scrapeVars, detailVars, lookupVars>>

\* no run is under way and no file was written
RunIdle ==
    /\ run_pc = "idle"
    /\ enabled_websites = <<>>
    /\ website = 0
    /\ all_jobs = <<>>
    /\ site_log = <<>>
    /\ corpus_file = Absent
    /\ file_at_run_start = Absent
    /\ file_before = Absent
    /\ updated_data = DefaultCorpus
    /\ save_result = "none"
    /\ last_run = <<>>
    /\ sites_seen = 0
    /\ global_config = "unread"
    /\ global_delay = 0
    /\ open_sessions = {}

(***************************************************************************)
(* The scraper of a site, found by the name of the site: main.py, lines     *)
(* 44-90.  A scraper module is known by the directory it is in and the      *)
(* names of the classes it defines.                                         *)
(***************************************************************************)
\* the names below are made of letters and underscores
IsLetter(c) == c # "_"

\* str.upper() on one character, for the letters that begin a word in the
\* names below
UpperOf(c) == CASE c = "g" -> "G" [] c = "c" -> "C" [] OTHER -> c

\* str.title(): a letter that follows no letter becomes a capital, every other
\* letter a small one
Title(s) ==
    [i \in 1..Len(s) |->
        IF i = 1 THEN UpperOf(s[i])
        ELSE IF IsLetter(s[i - 1]) THEN LowerChar(s[i])
        ELSE UpperOf(s[i])]

\* str.replace('_', '')
RECURSIVE WithoutUnderscores(_)
WithoutUnderscores(s) ==
    IF s = <<>> THEN <<>>
    ELSE IF Head(s) = "_" THEN WithoutUnderscores(Tail(s))
    ELSE <<Head(s)>> \o WithoutUnderscores(Tail(s))

ScraperSuffix == <<"S", "c", "r", "a", "p", "e", "r">>

\* main.py:76: f"{website_name.title().replace('_', '')}Scraper"
ScraperClassName(name) == WithoutUnderscores(Title(name)) \o ScraperSuffix

\* src/scrapers/google
GoogleDir == <<"g", "o", "o", "g", "l", "e">>

\* scraper.py:17  class GoogleCareerScraper
GoogleCareerScraper ==
    <<"G", "o", "o", "g", "l", "e", "C", "a", "r", "e", "e", "r">> \o ScraperSuffix

\* the scraper modules of the repository
RepositoryModules == {[dir |-> GoogleDir, classes |-> {GoogleCareerScraper}]}

\* the modules under scrapers/: those of the repository and, or not, those of
\* two further sites, one whose class has the name line 76 makes of its
\* directory and one whose class has another name
ModuleLayouts ==
    LET further ==
            {[dir |-> <<"g", "_", "g">>, classes |-> {<<"G", "G">> \o ScraperSuffix}],
             [dir |-> <<"g">>, classes |-> {<<"g">> \o ScraperSuffix}]}
    IN  {RepositoryModules \cup some : some \in SUBSET further}

\* the names a site is given in enabled_websites
SiteNames ==
    {GoogleDir, GoogleDir \o <<"_", "c", "a", "r", "e", "e", "r">>}
    \cup UNION {[1..k -> {"g", "G", "_"}] : k \in 1..MaxStrLen}

\* main.py:44-55 and 66: the site's config.json is missing or no JSON, says
\* enabled false, or is valid and enabled
WebsiteConfigs == {"missing", "disabled", "ok"}

\* main.py:61-78: the condition _run_website_scraper meets the site in
SiteCondition(name, config, modules) ==
    IF config = "missing" THEN "no_config"
    ELSE IF config = "disabled" THEN "disabled"
    ELSE IF ~\E m \in modules : m.dir = name THEN "import_error"
    ELSE LET module == CHOOSE m \in modules : m.dir = name
         IN  IF ScraperClassName(name) \in module.classes THEN "scraped"
             ELSE "no_class"

\* main.py:57-90: _run_website_scraper(website_name)
RunNamedScraper ==
    /\ lookup = "none"
    /\ LET cond == SiteCondition(website_name, website_config, scraper_modules)
       IN  /\ lookup' = cond
           /\ site_jobs' = RunWebsiteScraper(cond, scrape_yield).jobs
           /\ scraper_class' = IF cond \in {"no_class", "scraped"}
                               THEN ScraperClassName(website_name) ELSE <<>>
    /\ UNCHANGED <<website_name, website_config, scraper_modules, scrape_yield>>
    /\ UNCHANGED <<mergeVars, hashVars, scrapeVars, runVars, detailVars>>

\* no site is being looked up
LookupIdle ==
    /\ website_name = <<>>
    /\ website_config = "missing"
    /\ scraper_modules = {}
    /\ scrape_yield = <<>>
    /\ scraper_class = <<>>
    /\ lookup = "none"
    /\ site_jobs = <<>>

(***************************************************************************)
(* Specification of the merge                                              *)
(***************************************************************************)
Init ==
    /\ existing_in = <<>>
    /\ new_jobs_in = <<>>
    /\ existing_jobs = <<>>
    /\ new_jobs = <<>>
    /\ deduplicated_jobs = <<>>
    /\ new_job_count = 0
    /\ new_jobs_this_run = 0
    /\ outcome = "none"
    /\ remerged = FALSE
    /\ now = 0
    /\ records_seen = 0
    /\ jobA = JobNoKeys
    /\ jobB = JobNoKeys
    /\ hashA = <<>>
    /\ hashB = <<>>
    /\ ScrapeIdle
    /\ RunIdle
    /\ LookupIdle
    /\ DetailIdle

\* main.py:131-136 with the corpus the previous run left: deduplicate_jobs is
\* called at clock reading now + 1 and the new-job count is the length
\* difference.  `cost` is what the call takes of the MaxRecords budget.
ProcessScrapedJobs(batch, cost) ==
    LET existing == deduplicated_jobs
        r == DeduplicateJobs(existing, batch, now + 1)
    IN  /\ records_seen + cost <= MaxRecords
        /\ records_seen' = records_seen + cost
        /\ now' = now + 1
        /\ existing_in' = existing
        /\ new_jobs_in' = batch
        /\ existing_jobs' = r.existing_after
        /\ new_jobs' = r.new_after
        /\ deduplicated_jobs' = r.returned
        /\ new_job_count' = r.count
        /\ new_jobs_this_run' = Len(r.returned) - Len(r.existing_after)
        /\ outcome' = r.outcome

\* the same while nothing else happens
MergeBatch(batch, cost) ==
    /\ ProcessScrapedJobs(batch, cost)
    /\ UNCHANGED <<hashVars, scrapeVars, runVars, detailVars, lookupVars>>

\* a run with any incoming batch
Merge ==
    \E k \in 0..(MaxRecords - records_seen) : \E batch \in Batches(k) :
        /\ MergeBatch(batch, IF k = 0 THEN 1 ELSE k)
        /\ remerged' = FALSE

\* a run whose incoming batch is the previous run's batch again: the same
\* records scraped again, or the same list objects as the first call left them
Remerge ==
    /\ outcome # "none"
    /\ \E batch \in {new_jobs_in, new_jobs} : MergeBatch(batch, 1)
    /\ remerged' = TRUE

Next == Merge \/ Remerge

Spec == Init /\ [][Next]_vars

\* main.py:131: the first run of the process reads a corpus file that earlier
\* runs, of this or of an earlier version, wrote
InitStored ==
    /\ existing_in = <<>>
    /\ new_jobs_in = <<>>
    /\ existing_jobs = <<>>
    /\ new_jobs = <<>>
    /\ deduplicated_jobs \in StoredCorpora
    /\ new_job_count = 0
    /\ new_jobs_this_run = 0
    /\ outcome = "none"
    /\ remerged = FALSE
    /\ now = 0
    /\ records_seen = 1
    /\ jobA = JobNoKeys
    /\ jobB = JobNoKeys
    /\ hashA = <<>>
    /\ hashB = <<>>
    /\ ScrapeIdle
    /\ RunIdle
    /\ LookupIdle
    /\ DetailIdle

SpecStored == InitStored /\ [][Next]_vars

(***************************************************************************)
(* Specification of the fingerprint                                        *)
(***************************************************************************)
InitHash ==
    /\ existing_in = <<>>
    /\ new_jobs_in = <<>>
    /\ existing_jobs = <<>>
    /\ new_jobs = <<>>
    /\ deduplicated_jobs = <<>>
    /\ new_job_count = 0
    /\ new_jobs_this_run = 0
    /\ outcome = "none"
    /\ remerged = FALSE
    /\ now = 0
    /\ records_seen = 0
    /\ jobA \in HashJobs
    /\ jobB \in HashJobs
    /\ hashA = <<>>
    /\ hashB = <<>>
    /\ ScrapeIdle
    /\ RunIdle
    /\ LookupIdle
    /\ DetailIdle

\* generate_job_hash applied to both jobs
HashBoth ==
    /\ hashA = <<>>
    /\ hashA' = GenerateJobHash(jobA)
    /\ hashB' = GenerateJobHash(jobB)
    /\ UNCHANGED <<jobA, jobB>>
    /\ UNCHANGED <<mergeVars, scrapeVars, runVars, detailVars, lookupVars>>

SpecHash == InitHash /\ [][HashBoth]_vars

(***************************************************************************)
(* Specification of the scraper: one scrape_jobs call                      *)
(***************************************************************************)
MergeIdle ==
    /\ existing_in = <<>>
    /\ new_jobs_in = <<>>
    /\ existing_jobs = <<>>
    /\ new_jobs = <<>>
    /\ deduplicated_jobs = <<>>
    /\ new_job_count = 0
    /\ new_jobs_this_run = 0
    /\ outcome = "none"
    /\ remerged = FALSE
    /\ now = 0
    /\ records_seen = 0

HashIdle ==
    /\ jobA = JobNoKeys
    /\ jobB = JobNoKeys
    /\ hashA = <<>>
    /\ hashB = <<>>

\* scrape_jobs was just called on a fresh scraper (lines 36-38)
InitScrape ==
    /\ MergeIdle
    /\ HashIdle
    /\ pc = "launch"
    /\ browser = "none"
    /\ page_number = 0
    /\ total_jobs = 0
    /\ attempt = 0
    /\ index = 0
    /\ job_cards = <<>>
    /\ scraped_jobs = <<>>
    /\ site_batch = <<>>
    /\ raised = {}
    /\ page_exit = "none"
    /\ pages_scanned = 0
    /\ jobs_at_scan = 0
    /\ card_steps = 0
    /\ invocations = 0
    /\ card_failures = 0
    /\ activated = {}
    /\ failed = {}
    /\ shrunk = FALSE
    /\ cards_shown = 0
    /\ faults = 0
    /\ TraversalIdle
    /\ config_max_pages = max_pages
    /\ RunIdle
    /\ LookupIdle
    /\ DetailIdle

NextScrape ==
    \/ Launch
    \/ NewPage
    \/ Goto
    \/ Expand
    \/ Scan
    \/ Recover
    \/ CardStep
    \/ RecursionLimitReached
    \/ PageCloses
    \/ GotoNextPage
    \/ Settle
    \/ CloseBrowser
    \/ Interrupt

SpecScrape == InitScrape /\ [][NextScrape]_vars

\* the values a site's config.json gives for scraping_config.max_pages
SiteCaps == {1, 2}

\* scrape_jobs was just called on a scraper constructed (lines 29-38) from a
\* site configuration that sets max_pages
InitConfigured ==
    /\ MergeIdle
    /\ HashIdle
    /\ pc = "launch"
    /\ browser = "none"
    /\ page_number = 0
    /\ total_jobs = 0
    /\ attempt = 0
    /\ index = 0
    /\ job_cards = <<>>
    /\ scraped_jobs = <<>>
    /\ site_batch = <<>>
    /\ raised = {}
    /\ page_exit = "none"
    /\ pages_scanned = 0
    /\ jobs_at_scan = 0
    /\ card_steps = 0
    /\ invocations = 0
    /\ card_failures = 0
    /\ activated = {}
    /\ failed = {}
    /\ shrunk = FALSE
    /\ cards_shown = 0
    /\ faults = 0
    /\ TraversalIdle
    /\ config_max_pages \in SiteCaps
    /\ RunIdle
    /\ LookupIdle
    /\ DetailIdle

SpecConfigured == InitConfigured /\ [][NextScrape]_vars

(***************************************************************************)
(* Specification of the runs: run_all_scrapers, run after run              *)
(***************************************************************************)
\* no run was made yet and there is no corpus file
InitRun ==
    /\ MergeIdle
    /\ HashIdle
    /\ ScrapeIdle
    /\ RunIdle
    /\ LookupIdle
    /\ DetailIdle

NextRun ==
    \/ RunStart
    \/ RunSite
    \/ ScrapeReturns
    \/ Cooldown
    \/ LoadAndMerge
    \/ SaveOpen
    \/ SaveWrite
    \/ Kill
    \/ UpdateRunStatus

SpecRun == InitRun /\ [][NextRun]_vars

(***************************************************************************)
(* Specification of the description of a job                               *)
(***************************************************************************)
\* a detail view is loaded and _extract_job_description is about to be called
InitDetail ==
    /\ MergeIdle
    /\ HashIdle
    /\ ScrapeIdle
    /\ RunIdle
    /\ LookupIdle
    /\ detail_view \in DetailViews
    /\ handed_over \in BOOLEAN
    /\ described = FALSE
    /\ min_qual = <<>>
    /\ pref_qual = <<>>
    /\ about_job = <<>>
    /\ responsibilities = <<>>
    /\ job_description = <<>>
    /\ ExtractIdle

SpecDetail == InitDetail /\ [][ExtractDescription]_vars

(***************************************************************************)
(* Specification of the record of a job, from the detail view to the corpus *)
(***************************************************************************)
\* a posting is on show and nothing was scraped yet
InitExtract ==
    /\ MergeIdle
    /\ HashIdle
    /\ ScrapeIdle
    /\ RunIdle
    /\ LookupIdle
    /\ detail_view \in PostingViews
    /\ handed_over \in BOOLEAN
    /\ described = FALSE
    /\ min_qual = <<>>
    /\ pref_qual = <<>>
    /\ about_job = <<>>
    /\ responsibilities = <<>>
    /\ job_description = <<>>
    /\ current_url \in Urls
    /\ title_element \in TitleElements
    /\ location_elements \in LocationLists
    /\ level_element \in LevelElements
    /\ query_fault = "none"
    /\ job_data = <<>>
    /\ pending = FALSE

\* scraper.py:395: _extract_job_data is called on the loaded detail view; one
\* of its browser calls may raise
ExtractData ==
    /\ ~pending
    /\ \E fault \in QueryFaults :
         LET d == ExtractJobDescription(detail_view, handed_over, fault)
             reached == fault \notin OuterFaults
         IN  /\ query_fault' = fault
             /\ job_data' = ExtractJobData(current_url, title_element,
                                           location_elements, level_element,
                                           detail_view, handed_over, fault, now)
             /\ described' = reached
             /\ min_qual' = IF reached THEN d.min_qual ELSE <<>>
             /\ pref_qual' = IF reached THEN d.pref_qual ELSE <<>>
             /\ about_job' = IF reached THEN d.about_job ELSE <<>>
             /\ responsibilities' = IF reached THEN d.responsibilities ELSE <<>>
             /\ job_description' = IF reached THEN d.description ELSE <<>>
    /\ pending' = TRUE
    /\ UNCHANGED <<detail_view, handed_over, current_url, title_element,
                   location_elements, level_element>>
    /\ UNCHANGED <<mergeVars, hashVars, scrapeVars, runVars, lookupVars>>

\* scraper.py:396-397 and main.py:118-136: the record is appended to the
\* batch, and the run merges the batch into the corpus
MergeScraped ==
    /\ pending
    /\ job_data # <<>>
    /\ ProcessScrapedJobs(job_data, 1)
    /\ remerged' = FALSE
    /\ pending' = FALSE
    /\ UNCHANGED <<detail_view, handed_over, described, min_qual, pref_qual,
                   about_job, responsibilities, job_description, current_url,
                   title_element, location_elements, level_element,
                   query_fault, job_data>>
    /\ UNCHANGED <<hashVars, scrapeVars, runVars, lookupVars>>

\* scraper.py:396 and main.py:118-121: None is not appended, and the run has
\* nothing to merge
NoRecord ==
    /\ pending
    /\ job_data = <<>>
    /\ pending' = FALSE
    /\ UNCHANGED <<detail_view, handed_over, described, min_qual, pref_qual,
                   about_job, responsibilities, job_description, current_url,
                   title_element, location_elements, level_element,
                   query_fault, job_data>>
    /\ UNCHANGED <<mergeVars, hashVars, scrapeVars, runVars, lookupVars>>

\* between two runs the site shows the same posting with another description
Repost ==
    /\ ~pending
    /\ outcome # "none"
    /\ \E view \in PostingViews \ {detail_view} : detail_view' = view
    /\ UNCHANGED <<handed_over, described, min_qual, pref_qual, about_job,
                   responsibilities, job_description, extractVars>>
    /\ UNCHANGED <<mergeVars, hashVars, scrapeVars, runVars, lookupVars>>

NextExtract == ExtractData \/ MergeScraped \/ NoRecord \/ Repost

SpecExtract == InitExtract /\ [][NextExtract]_vars

(***************************************************************************)
(* Specification of the lookup of a site's scraper                         *)
(***************************************************************************)
\* _run_website_scraper is about to be called for a site
InitLookup ==
    /\ MergeIdle
    /\ HashIdle
    /\ ScrapeIdle
    /\ RunIdle
    /\ DetailIdle
    /\ website_name \in SiteNames
    /\ website_config \in WebsiteConfigs
    /\ scraper_modules \in ModuleLayouts
    /\ scrape_yield \in SiteBatches
    /\ scraper_class = <<>>
    /\ lookup = "none"
    /\ site_jobs = <<>>

SpecLookup == InitLookup /\ [][RunNamedScraper]_vars

(***************************************************************************)
(* Vocabulary of the properties.  These definitions state what the claims   *)
(* mean and do not use the operators that model the code's normalisation.   *)
(***************************************************************************)
Has(job, key) == key \in DOMAIN job

\* the value of a text field, a missing one read as empty
Field(job, key) == IF key \in DOMAIN job THEN job[key] ELSE <<>>

KeyNames == {"title", "company", "location", "url"}

AllowList == {"description", "posted_date", "salary", "employment_type"}

\* a job without the given keys
Without(job, keys) == [k \in DOMAIN job \ keys |-> job[k]]

\* the two jobs hold the same value, or both none, under every key of `keys`
SameOn(a, b, keys) ==
    \A k \in keys : (Has(a, k) <=> Has(b, k)) /\ (Has(a, k) => a[k] = b[k])

\* the text between the first and the last character that is not a space
Core(s) ==
    LET solid == {i \in 1..Len(s) : s[i] # Space}
    IN  IF solid = {} THEN <<>>
        ELSE SubSeq(s, CHOOSE i \in solid : \A j \in solid : i <= j,
                       CHOOSE i \in solid : \A j \in solid : i >= j)

\* the text without any of its spaces
NoSpaces(s) == SelectSeq(s, LAMBDA c : c # Space)

SameLetter(c, d) ==
    c = d \/ {c, d} \in {{"a", "A"}, {"b", "B"}, {"g", "G"}, {"u", "U"}}

\* equal but for the letter case
SameButCase(s, t) ==
    Len(s) = Len(t) /\ \A i \in 1..Len(s) : SameLetter(s[i], t[i])

\* the key fields of the two jobs differ at most in letter case and in
\* leading or trailing whitespace
SameKeyButCaseAndPadding(a, b) ==
    \A k \in KeyNames : SameButCase(Core(Field(a, k)), Core(Field(b, k)))

\* the key fields of the two jobs differ at most in letter case and in
\* whitespace, wherever it stands
SameKeyButCaseAndWhitespace(a, b) ==
    \A k \in KeyNames : SameButCase(NoSpaces(Field(a, k)), NoSpaces(Field(b, k)))

\* every key field of the job is missing, empty or blank
NoKey(job) == \A k \in KeyNames : Core(Field(job, k)) = <<>>

\* the fingerprint of a job without key fields: the digest of "|||"
EmptyFingerprint == <<"md5", <<"|", "|", "|">>>>

Merged == outcome # "none"

N0 == Len(existing_in)

IdOf(job) == IF Has(job, "id") THEN job["id"] ELSE None

\* the two jobs are the same posting
SameKey(a, b) == SameKeyButCaseAndPadding(a, b)

\* the corpus given to the call holds the posting
Known(job) == \E i \in 1..N0 : SameKey(existing_in[i], job)

\* the positions of the incoming batch that hold the posting
Matches(job) == {j \in 1..Len(new_jobs_in) : SameKey(new_jobs_in[j], job)}

\* the positions of the incoming batch that hold a posting the corpus did not
\* hold, for the first time in the batch
FirstUnknown ==
    {j \in 1..Len(new_jobs_in) :
        /\ ~Known(new_jobs_in[j])
        /\ \A i \in 1..(j - 1) : ~SameKey(new_jobs_in[i], new_jobs_in[j])}

\* the records the call appended
Appended == (N0 + 1)..Len(deduplicated_jobs)

\* the last position of `among` whose incoming record holds a non-empty value
\* under key, 0 when there is none
LastTruthy(among, key) ==
    LET T == {j \in among : Has(new_jobs_in[j], key) /\ new_jobs_in[j][key] # <<>>}
    IN  IF T = {} THEN 0 ELSE CHOOSE j \in T : \A i \in T : i <= j

(***************************************************************************)
(* Properties of the merge                                                 *)
(***************************************************************************)

\* C1: from the empty corpus, after any sequence of merges, no two records of
\* the corpus have the same id, and no two are the same posting up to the
\* letter case and the surrounding whitespace of their key fields.
C1_OneRecordPerFingerprint ==
    \A i, j \in 1..Len(deduplicated_jobs) :
        i # j =>
            /\ IdOf(deduplicated_jobs[i]) # IdOf(deduplicated_jobs[j])
            /\ ~SameKey(deduplicated_jobs[i], deduplicated_jobs[j])

\* a second merge met a batch that repeats a posting in another letter case
\* and padding, and the corpus holds several postings
C1_Witness ==
    /\ now >= 2
    /\ Len(deduplicated_jobs) >= 2
    /\ \E i, j \in 1..Len(new_jobs_in) :
          /\ i < j
          /\ Field(new_jobs_in[i], "title") = <<"a">>
          /\ Field(new_jobs_in[j], "title") = <<"A">>
          /\ SameKey(new_jobs_in[i], new_jobs_in[j])

\* C2: merging the same batch again adds no record (both counts are 0) and
\* leaves every field of every record but last_seen as it was.
C2_MergeIdempotent ==
    remerged =>
        /\ new_job_count = 0
        /\ new_jobs_this_run = 0
        /\ Len(deduplicated_jobs) = Len(existing_in)
        /\ \A i \in 1..Len(existing_in) :
              Without(deduplicated_jobs[i], {"last_seen"})
                  = Without(existing_in[i], {"last_seen"})

\* the same batch of two records was merged again, and a record of the corpus
\* had its last_seen refreshed by it
C2_Witness ==
    /\ remerged
    /\ Len(new_jobs_in) >= 2
    /\ \E i \in 1..Len(deduplicated_jobs) :
          /\ Has(deduplicated_jobs[i], "last_seen")
          /\ deduplicated_jobs[i]["last_seen"] = now
          /\ ~(Has(existing_in[i], "last_seen") /\ existing_in[i]["last_seen"] = now)

\* C3: the returned corpus is at least as long as the given one, and the
\* reported count of new records is the length difference, which is the number
\* of incoming records that were appended as new.
C3_MergeMonotone ==
    Merged =>
        /\ Len(deduplicated_jobs) >= Len(existing_in)
        /\ new_jobs_this_run = Len(deduplicated_jobs) - Len(existing_in)
        /\ new_jobs_this_run = new_job_count
        /\ new_jobs_this_run = Cardinality(FirstUnknown)

\* a batch with a new posting and a known or repeated one met a non-empty corpus
C3_Witness ==
    /\ Merged
    /\ Len(existing_in) >= 1
    /\ new_jobs_this_run >= 1
    /\ Len(new_jobs_in) > new_jobs_this_run

\* C4 as stated: a record of the batch that is the only one with the
\* fingerprint of a stored record, and carries a description other than the
\* stored one, has its description stored, last_seen refreshed, and the stored
\* title, company, location and url kept.
C4_AnyDifferentDescriptionStored ==
    Merged =>
        \A i \in 1..N0 : \A j \in 1..Len(new_jobs_in) :
            ( /\ Matches(existing_in[i]) = {j}
              /\ Has(new_jobs_in[j], "description")
              /\ ~( /\ Has(existing_in[i], "description")
                    /\ existing_in[i]["description"] = new_jobs_in[j]["description"]) )
            => /\ Has(deduplicated_jobs[i], "description")
               /\ deduplicated_jobs[i]["description"] = new_jobs_in[j]["description"]
               /\ Has(deduplicated_jobs[i], "last_seen")
               /\ deduplicated_jobs[i]["last_seen"] = now
               /\ SameOn(deduplicated_jobs[i], existing_in[i], KeyNames)

\* C4, amended: a stored record that the batch re-observes keeps its title,
\* company, location and url and has last_seen refreshed, and its description
\* becomes the non-empty description the batch carries for it (the last one,
\* when several records of the batch carry one).
C4_IdentityFieldsKept ==
    Merged =>
        \A i \in 1..N0 :
            LET M == Matches(existing_in[i])
                j == LastTruthy(M, "description")
            IN  M # {} =>
                    /\ SameOn(deduplicated_jobs[i], existing_in[i], KeyNames)
                    /\ Has(deduplicated_jobs[i], "last_seen")
                    /\ deduplicated_jobs[i]["last_seen"] = now
                    /\ j # 0 =>
                          /\ Has(deduplicated_jobs[i], "description")
                          /\ deduplicated_jobs[i]["description"]
                                = new_jobs_in[j]["description"]

\* a stored record was re-observed by a record in another letter case and with
\* another description, which replaced the stored one
C4_Witness ==
    /\ Merged
    /\ \E i \in 1..N0 : \E j \in Matches(existing_in[i]) :
          /\ Field(existing_in[i], "title") = <<"a">>
          /\ Field(new_jobs_in[j], "title") = <<"A">>
          /\ Field(existing_in[i], "description") = D1
          /\ Field(new_jobs_in[j], "description") = D2
          /\ Field(deduplicated_jobs[i], "description") = D2
          /\ Field(deduplicated_jobs[i], "title") = <<"a">>

\* C5: a stored record that the batch re-observes has last_seen refreshed, every
\* field outside the allow-list and last_seen left as it was, and each
\* allow-listed field overwritten exactly when a record of the batch carries a
\* non-empty value for it (then with the last such value).
C5_OnlyAllowListChanges ==
    Merged =>
        \A i \in 1..N0 :
            LET M   == Matches(existing_in[i])
                old == existing_in[i]
                new == deduplicated_jobs[i]
            IN  M # {} =>
                    /\ Has(new, "last_seen") /\ new["last_seen"] = now
                    /\ Without(new, AllowList \cup {"last_seen"})
                          = Without(old, AllowList \cup {"last_seen"})
                    /\ \A f \in AllowList :
                          LET j == LastTruthy(M, f)
                          IN  IF j = 0 THEN SameOn(new, old, {f})
                              ELSE Has(new, f) /\ new[f] = new_jobs_in[j][f]

\* a stored record with a description was re-observed by a record with an empty
\* description and a new employment_type: the description stayed, the
\* employment_type was written
C5_Witness ==
    /\ Merged
    /\ \E i \in 1..N0 : \E j \in Matches(existing_in[i]) :
          /\ Has(new_jobs_in[j], "description")
          /\ new_jobs_in[j]["description"] = <<>>
          /\ LastTruthy(Matches(existing_in[i]), "description") = 0
          /\ Has(existing_in[i], "description")
          /\ existing_in[i]["description"] # <<>>
          /\ deduplicated_jobs[i]["description"] = existing_in[i]["description"]
          /\ ~Has(existing_in[i], "employment_type")
          /\ Has(deduplicated_jobs[i], "employment_type")

\* C6 as stated, first_seen read as the code's scraped_date: every appended
\* record carries scraped_date and last_seen equal to the merge time, and
\* status active.
C6_NewRecordStampedTwice ==
    Merged =>
        \A k \in Appended :
            LET r == deduplicated_jobs[k]
            IN  /\ Has(r, "scraped_date") /\ r["scraped_date"] = now
                /\ Has(r, "last_seen") /\ r["last_seen"] = now
                /\ Has(r, "status") /\ r["status"] = "active"

\* C6, amended: every posting the corpus did not hold is appended once, from
\* its first record of the batch, with an id, scraped_date equal to the merge
\* time and status active; it carries last_seen (equal to the merge time) only
\* when a later record of the batch re-observes it, and no later record of the
\* batch with its fingerprint is appended.
C6_NewRecordAppendedOnce ==
    Merged =>
        /\ Cardinality(Appended) = Cardinality(FirstUnknown)
        /\ \A j \in FirstUnknown :
              \E k \in Appended :
                  LET r == deduplicated_jobs[k]
                  IN  /\ SameOn(r, new_jobs_in[j], KeyNames)
                      /\ Has(r, "id")
                      /\ Has(r, "scraped_date") /\ r["scraped_date"] = now
                      /\ Has(r, "status") /\ r["status"] = "active"
                      /\ ~Has(new_jobs_in[j], "last_seen") =>
                            /\ Has(r, "last_seen") <=> Matches(new_jobs_in[j]) # {j}
                            /\ Has(r, "last_seen") => r["last_seen"] = now
                      /\ \A k2 \in Appended : SameKey(deduplicated_jobs[k2], r) => k2 = k

\* a non-empty corpus received a new posting, seen once in the batch, whose
\* record came with an older scraped_date: it was appended without last_seen
C6_Witness ==
    /\ Merged
    /\ N0 >= 1
    /\ \E j \in FirstUnknown : \E k \in Appended :
          /\ Matches(new_jobs_in[j]) = {j}
          /\ Has(new_jobs_in[j], "scraped_date")
          /\ new_jobs_in[j]["scraped_date"] = 0
          /\ SameOn(deduplicated_jobs[k], new_jobs_in[j], KeyNames)
          /\ deduplicated_jobs[k]["scraped_date"] = now
          /\ ~Has(deduplicated_jobs[k], "last_seen")

\* C7: the returned corpus holds the given records first, each at its
\* position, and after them the new postings in the order in which the batch
\* first shows them.
C7_OrderPreserved ==
    Merged =>
        /\ Len(deduplicated_jobs) = N0 + Cardinality(FirstUnknown)
        /\ \A i \in 1..N0 :
              SameOn(deduplicated_jobs[i], existing_in[i],
                     KeyNames \cup {"id", "scraped_date", "status"})
        /\ \A k \in Appended :
              \E j \in FirstUnknown :
                  /\ SameOn(deduplicated_jobs[k], new_jobs_in[j], KeyNames)
                  /\ Cardinality({j2 \in FirstUnknown : j2 < j}) = k - N0 - 1

\* a corpus of one record received two new postings
C7_Witness ==
    /\ Merged
    /\ N0 >= 1
    /\ Cardinality(Appended) >= 2
    /\ ~SameKey(deduplicated_jobs[N0 + 1], deduplicated_jobs[N0 + 2])

\* C8 as stated: after the call the caller's existing_jobs list and every
\* record in it are as they were before the call.
C8_InputUntouched ==
    Merged => existing_jobs = existing_in

\* C9: every call returns by its normal return, never by the exception
\* handler; a record without any key field gets the fingerprint of the empty
\* key, the corpus holds one record with that fingerprint, which is appended by
\* the first such record and re-observed by the later ones.
C9_NeverRaises ==
    Merged =>
        /\ outcome = "returned"
        /\ \A j \in 1..Len(new_jobs_in) :
              NoKey(new_jobs_in[j]) =>
                  /\ IdOf(new_jobs[j]) = EmptyFingerprint
                  /\ Cardinality({k \in 1..Len(deduplicated_jobs) :
                                    IdOf(deduplicated_jobs[k]) = EmptyFingerprint}) = 1
                  /\ IF \E i \in 1..N0 : NoKey(existing_in[i])
                     THEN /\ \A k \in Appended : ~NoKey(deduplicated_jobs[k])
                          /\ \E i \in 1..N0 :
                                /\ NoKey(deduplicated_jobs[i])
                                /\ Has(deduplicated_jobs[i], "last_seen")
                                /\ deduplicated_jobs[i]["last_seen"] = now
                     ELSE \E k \in Appended :
                             /\ NoKey(deduplicated_jobs[k])
                             /\ Has(deduplicated_jobs[k], "scraped_date")
                             /\ deduplicated_jobs[k]["scraped_date"] = now

\* a record without any field of the key was merged into a corpus that already
\* held a record with empty key fields, and refreshed it
C9_Witness ==
    /\ Merged
    /\ \E j \in 1..Len(new_jobs_in) : new_jobs_in[j] = JobNoKeys
    /\ \E i \in 1..N0 :
          /\ NoKey(existing_in[i])
          /\ Has(deduplicated_jobs[i], "last_seen")
          /\ deduplicated_jobs[i]["last_seen"] = now

(***************************************************************************)
(* Properties of the fingerprint                                           *)
(***************************************************************************)
Hashed == hashA # <<>>

\* C10 as stated: two jobs whose key fields differ only in letter case or in
\* whitespace have the same fingerprint.
C10_WhitespaceIgnored ==
    Hashed => (SameKeyButCaseAndWhitespace(jobA, jobB) => hashA = hashB)

\* C10, amended: two jobs whose key fields differ only in letter case or in
\* leading and trailing whitespace, a missing key field counting as an empty
\* one and the other fields not counting, have the same fingerprint.
C10_FingerprintOfNormalizedKey ==
    Hashed => (SameKeyButCaseAndPadding(jobA, jobB) => hashA = hashB)

\* two jobs that differ in the case and padding of the title, in the case of
\* the company and in a field outside the key got the same fingerprint
C10_Witness ==
    /\ Hashed
    /\ hashA = hashB
    /\ Has(jobA, "title") /\ jobA["title"] = <<" ", "A">>
    /\ Has(jobB, "title") /\ jobB["title"] = <<"a", " ", " ">>
    /\ jobA["company"] # jobB["company"]

\* a job without a title and a job with a blank one got the same fingerprint
C10_WitnessMissing ==
    /\ Hashed
    /\ hashA = hashB
    /\ ~Has(jobA, "title")
    /\ Has(jobB, "title") /\ jobB["title"] = <<" ">>

(***************************************************************************)
(* Vocabulary of the scraper and of the runs                               *)
(***************************************************************************)
\* scrape_jobs was left, by a return or by an interrupt
ScrapeLeft == pc \in {"returned", "interrupted"}

\* the stages whose exception reaches the handler of scrape_jobs itself
OuterStages == {"launch", "new_page", "close"}

\* the positions of the page's list, the ids of its cards
Cards == 1..Len(job_cards)

\* the records the page added to the batch
AddedOnPage == Len(scraped_jobs) - jobs_at_scan

\* the loop over enabled_websites is over
SitesDone == run_pc \in {"load", "save", "write", "status", "ended", "killed"}

\* the batches the sites of this run returned, one after the other
RECURSIVE Returned(_)
Returned(i) == IF i = 0 THEN <<>> ELSE Returned(i - 1) \o site_log[i].jobs

\* the text fields of the record are those of a record of the corpus on disk
Persisted(job) ==
    /\ corpus_file.kind = "json"
    /\ \E i \in 1..Len(corpus_file.data.jobs) : SameKey(corpus_file.data.jobs[i], job)

\* the jobs a file holds, a file that is no document read as the empty corpus
JobsOf(file) == IF file.kind = "json" THEN file.data.jobs ELSE <<>>

(***************************************************************************)
(* The claims about the traversal of a site                                *)
(***************************************************************************)
\* C11: on a page whose card list only loses cards while it is traversed, the
\* invocations of _click_and_scrape_job_card that find their card are at most
\* the card count the traversal started with (total_jobs), the recovery
\* attempts are at most max_retries, and the invocations in all are at most
\* one per card, one per raised exception and the one that ends the page.
C11_TraversalBounded ==
    pc \in {"recover", "card", "next_page"} =>
        /\ card_steps <= total_jobs
        /\ attempt <= max_retries
        /\ card_steps + attempt <= total_jobs + max_retries
        /\ invocations <= total_jobs + card_failures + 1
        /\ index <= invocations

\* a page of three cards lost one while it was traversed and was finished
\* after two card steps
C11_Witness ==
    /\ page_exit = "cards_done"
    /\ shrunk
    /\ total_jobs = 3
    /\ card_steps = 2
    /\ invocations = 3

\* C12: _start_recursive_scraping is called for at most max_pages pages, and
\* the page counter never passes max_pages + 1, also when the next-page link
\* can still be clicked after the last page.
C12_PageLoopBounded ==
    /\ pages_scanned <= max_pages
    /\ page_number <= max_pages + 1
    /\ pc \in {"scan", "recover", "card", "next_page"} => page_number <= max_pages

\* the next-page link was clicked on the last of max_pages pages and the loop
\* ended
C12_Witness ==
    /\ pages_scanned = max_pages
    /\ page_number = max_pages + 1
    /\ pc = "close"

\* C13: a page whose first scan finds no card and that still shows none after
\* max_retries recovery attempts adds no record, is left without an exception
\* and is followed by _goto_next_page.
C13_EmptyPageSkipped ==
    page_exit = "exhausted" =>
        /\ pc = "next_page"
        /\ attempt = max_retries
        /\ total_jobs = 0
        /\ AddedOnPage = 0
        /\ card_steps = 0

\* the second page of a site stayed empty after the first page gave a record
C13_Witness ==
    /\ page_exit = "exhausted"
    /\ pages_scanned = 2
    /\ Len(scraped_jobs) > 0

\* an invocation of _click_and_scrape_job_card ends in its handler
C14_CardFailed == pc = "card" /\ card_failures' = card_failures + 1

\* on a page whose list did not change, every card with a link whose own
\* invocation did not raise was clicked
C14_LaterCardsActivated ==
    (page_exit = "cards_done" /\ ~shrunk) =>
        \A i \in Cards :
            (job_cards[i].link /\ job_cards[i].id \notin failed)
                => job_cards[i].id \in activated

\* C14: an exception raised while card i is processed is caught by that
\* invocation, which goes on with card i + 1 and leaves the batch as it is;
\* when the page is finished every card with a link whose own invocation did
\* not raise has been clicked.
C14_FailureSkipsOneCard ==
    /\ [][C14_CardFailed =>
            (pc' = "card" /\ index' = index + 1 /\ scraped_jobs' = scraped_jobs)]_vars
    /\ []C14_LaterCardsActivated

\* on a page of three cards the first gave a record, the second raised and the
\* third was clicked
C14_Witness ==
    /\ page_exit = "cards_done"
    /\ ~shrunk
    /\ Len(job_cards) = 3
    /\ job_cards[1].id \in activated
    /\ scraped_jobs = <<job_cards[1].id>>
    /\ failed = {job_cards[2].id}
    /\ job_cards[3].id \in activated

\* C15: when scrape_jobs is left after the browser was launched, by its
\* return, by an exception of any step or by an interrupt, the browser is
\* closed.
C15_BrowserClosedOnExit ==
    (ScrapeLeft /\ browser # "none") => browser = "closed"

\* the page creation raised after the launch, and scrape_jobs returned
C15_Witness ==
    /\ pc = "returned"
    /\ raised = {"new_page"}
    /\ browser = "closed"

\* C17 as stated: whenever a browser call raised during the scrape, the batch
\* scrape_jobs returns is empty.
C17_AnyExceptionEmptiesBatch ==
    (pc = "returned" /\ raised # {}) => site_batch = <<>>

\* C17, amended: the batch scrape_jobs returns is empty when the exception
\* reached its own handler (launch, page creation, browser shutdown); an
\* exception of the navigation, the initial expand, the traversal or the
\* pagination is caught before, and the batch holds the records scraped up to
\* the return.
C17_OuterExceptionEmptiesBatch ==
    pc = "returned" =>
        site_batch = IF raised \cap OuterStages # {} THEN <<>> ELSE scraped_jobs

\* the browser shutdown raised after a record was scraped, and the batch is
\* empty
C17_Witness ==
    /\ pc = "returned"
    /\ raised = {"close"}
    /\ scraped_jobs # <<>>
    /\ site_batch = <<>>

(***************************************************************************)
(* The claims about the run and the corpus file                            *)
(***************************************************************************)
\* C16: once the loop over enabled_websites is over, _run_website_scraper was
\* called for every site, whatever the earlier ones raised, all_jobs holds
\* the batches of the sites that returned one, and when the run has ended
\* with a successful write every one of these records is in the corpus file.
C16_SiteIsolation ==
    /\ run_pc = "site" => Len(site_log) = website - 1
    /\ SitesDone =>
          /\ Len(site_log) = Len(enabled_websites)
          /\ \A i \in 1..Len(site_log) : site_log[i].website = i
          /\ all_jobs = Returned(Len(site_log))
    /\ (run_pc = "ended" /\ save_result = "saved") =>
          \A j \in 1..Len(all_jobs) : Persisted(all_jobs[j])

\* the first site of a run raised, the second returned a batch, and the batch
\* was saved
C16_Witness ==
    /\ run_pc = "ended"
    /\ save_result = "saved"
    /\ Len(site_log) = 2
    /\ site_log[1].cond \in {"config_error", "import_error", "no_class", "init_error"}
    /\ site_log[2].jobs # <<>>

\* C18: for a disabled site no scraper is instantiated, no browser session is
\* opened, no record is contributed and no error is logged, and the loop goes
\* on to the sites after it.
C18_DisabledSiteSkipped ==
    \A i \in 1..Len(site_log) :
        site_log[i].cond = "disabled" =>
            /\ ~site_log[i].instantiated
            /\ ~site_log[i].session
            /\ site_log[i].jobs = <<>>
            /\ ~site_log[i].error
            /\ IF SitesDone THEN Len(site_log) = Len(enabled_websites)
               ELSE website > i

\* a disabled site was followed by a site that returned a batch
C18_Witness ==
    /\ Len(site_log) = 2
    /\ site_log[1].cond = "disabled"
    /\ site_log[2].cond = "scraped"
    /\ all_jobs # <<>>

\* C19 as stated: in every run that reached its end, save_json was called for
\* the corpus file.
C19_EveryRunRewritesCorpus ==
    run_pc = "ended" => save_result # "none"

\* C19, amended: a run that scraped no record ends without touching the
\* corpus file; a run that scraped a record calls save_json for it, and when
\* the write succeeds the file holds the merge of the scraped records into
\* the corpus the run found (the empty one when the file was absent, held no
\* document or could not be read) with total_jobs, new_jobs_this_run and
\* last_updated of this run.
C19_RunWithRecordsRewritesCorpus ==
    run_pc = "ended" =>
        /\ all_jobs = <<>> =>
              (save_result = "none" /\ corpus_file = file_at_run_start)
        /\ all_jobs # <<>> =>
              /\ save_result \in {"saved", "failed"}
              /\ existing_in \in {JobsOf(file_at_run_start), <<>>}
              /\ new_jobs_in = all_jobs
        /\ save_result = "saved" =>
              /\ corpus_file.kind = "json"
              /\ corpus_file.data.jobs = deduplicated_jobs
              /\ corpus_file.data.metadata.total_jobs = Len(deduplicated_jobs)
              /\ corpus_file.data.metadata.new_jobs_this_run
                    = Len(deduplicated_jobs) - Len(existing_in)
              /\ corpus_file.data.metadata.last_updated = now

\* the first run found no corpus file and saved the records it scraped
C19_Witness ==
    /\ run_pc = "ended"
    /\ file_at_run_start.kind = "absent"
    /\ all_jobs # <<>>
    /\ save_result = "saved"
    /\ Len(corpus_file.data.jobs) = 2

\* C20: the corpus file is absent or holds a complete document, and from the
\* call of save_json on it holds the document it held before or the new one.
C20_CorpusFileAlwaysComplete ==
    /\ corpus_file.kind \in {"absent", "json"}
    /\ run_pc \in {"write", "status", "killed"} =>
          \/ corpus_file = file_before
          \/ corpus_file.kind = "json" /\ corpus_file.data = updated_data

(***************************************************************************)
(* Properties of a batch that shows a new posting twice                    *)
(***************************************************************************)

\* C28: when the batch holds several records of one posting the corpus did
\* not hold, the first is appended, once, and the later ones are applied to it
\* as updates: last_seen is the merge time, each allow-listed field holds the
\* last non-empty value the later records carry for it (the first record's
\* value when there is none), every other field is the first record's, and
\* the posting counts once in new_job_count.
C28_SecondOccurrenceUpdatesFirst ==
    Merged =>
        /\ outcome = "returned" => new_job_count = Cardinality(FirstUnknown)
        /\ \A j \in FirstUnknown :
              LET first == new_jobs_in[j]
                  later == Matches(first) \ {j}
                  hits  == {k \in Appended : SameKey(deduplicated_jobs[k], first)}
              IN  (later # {} /\ outcome = "returned") =>
                      /\ Cardinality(hits) = 1
                      /\ \A k \in hits :
                            LET r == deduplicated_jobs[k]
                            IN  /\ Has(r, "last_seen") /\ r["last_seen"] = now
                                /\ Without(r, AllowList \cup {"last_seen", "id",
                                                              "scraped_date", "status"})
                                      = Without(first, AllowList \cup {"last_seen", "id",
                                                              "scraped_date", "status"})
                                /\ \A f \in AllowList :
                                      LET l == LastTruthy(later, f)
                                      IN  IF l = 0 THEN SameOn(r, first, {f})
                                          ELSE Has(r, f) /\ r[f] = new_jobs_in[l][f]

\* a batch showed a new posting twice, the second time with another
\* description and a salary: one record was appended, holding the second
\* record's description and salary and the first record's title
C28_Witness ==
    /\ Merged
    /\ outcome = "returned"
    /\ new_job_count = 1
    /\ \E j \in FirstUnknown : \E l \in Matches(new_jobs_in[j]) : \E k \in Appended :
          /\ j < l
          /\ Field(new_jobs_in[j], "description") = D1
          /\ Field(new_jobs_in[l], "description") = D2
          /\ Has(new_jobs_in[l], "salary")
          /\ ~Has(new_jobs_in[j], "salary")
          /\ SameKey(deduplicated_jobs[k], new_jobs_in[j])
          /\ Field(deduplicated_jobs[k], "description") = D2
          /\ Has(deduplicated_jobs[k], "salary")
          /\ Field(deduplicated_jobs[k], "title") = Field(new_jobs_in[j], "title")

(***************************************************************************)
(* Properties of the merge into a stored corpus                            *)
(***************************************************************************)

\* C24 as stated: whatever corpus the call is given, a record it appends is
\* not a posting the given corpus already held.
C24_KnownPostingNeverAppended ==
    Merged => \A k \in Appended : ~Known(deduplicated_jobs[k])

(***************************************************************************)
(* Further claims about the traversal of a site                            *)
(***************************************************************************)

\* C23 as stated: the card traversal sets a bound of its own to its
\* re-entries, also on a page that was closed while its cards were traversed:
\* it never goes on calling itself until the interpreter refuses the call.
C23_ReentryEndsByItself == overflows = 0

\* the recovery of a page begins
C25_RecoveryEntered == pc # "recover" /\ pc' = "recover"

\* a recovery attempt ends with cards counted
C25_CardsFound == pc = "recover" /\ total_jobs' > 0

\* C25: the recovery attempts begin only after a scan that counted no card;
\* there are at most max_retries of them on a page; before each attempt but
\* the first the loop has waited once more, and the count is still zero; the
\* attempt after which the second query counts a card is the last, and the
\* traversal then starts at index 0.
C25_ZeroCardRecovery ==
    /\ [][C25_RecoveryEntered =>
            (pc = "scan" /\ Len(job_cards) = 0 /\ total_jobs' = 0 /\ attempt' = 0)]_vars
    /\ [](attempt <= max_retries)
    /\ [](pc = "recover" =>
            (total_jobs = 0 /\ attempt < max_retries /\ backoffs = attempt))
    /\ [][C25_CardsFound =>
            (pc' = "card" /\ index' = 0 /\ invocations' = 0
             /\ attempt' = attempt + 1 /\ backoffs' = backoffs)]_vars

\* the second recovery attempt of a page found cards, after one wait, and the
\* traversal is about to start at index 0
C25_Witness ==
    /\ pc = "card"
    /\ attempt = 2
    /\ backoffs = 1
    /\ total_jobs > 0
    /\ index = 0
    /\ invocations = 0

\* C26 as stated: _start_recursive_scraping is called for at most as many
\* pages as the site's configuration gives for max_pages.
C26_PagesWithinConfiguredCap == pages_scanned <= config_max_pages

\* the next-page link is clicked
C29_NextPageClicked == pc = "next_page" /\ page_number' = page_number + 1

\* _start_recursive_scraping queries the cards of a page
C29_PageScanned == pc = "scan" /\ pages_scanned' = pages_scanned + 1

\* C29: a click on the next-page link is followed by the wait for the new
\* page; while the loop waits no card is queried or clicked; every page after
\* the first is scanned only after its wait was completed, and its traversal
\* starts at index 0 without any invocation counted.
C29_SettleBeforeScan ==
    /\ [][C29_NextPageClicked => pc' = "settle"]_vars
    /\ [][pc = "settle" =>
            (/\ pc' \in {"scan", "close", "interrupted"}
             /\ pages_scanned' = pages_scanned
             /\ invocations' = invocations
             /\ activated' = activated
             /\ scraped_jobs' = scraped_jobs)]_vars
    /\ [](pc \in {"scan", "recover", "card", "next_page"} =>
            settles = page_number - 1)
    /\ [][C29_PageScanned =>
            (index' = 0 /\ invocations' = 0 /\ card_steps' = 0)]_vars

\* the second page was waited for and scanned, and the traversal of its cards
\* is about to start at index 0
C29_Witness ==
    /\ pc = "card"
    /\ page_number = 2
    /\ pages_scanned = 2
    /\ settles = 1
    /\ Len(job_cards) > 0
    /\ index = 0
    /\ invocations = 0

\* an invocation finds no link to click in its card
C30_NoLinkStep ==
    pc = "card" /\ invocations' = invocations + 1 /\ step_kind' = "no_link"

\* no card of the page that has no link was clicked or gave a record
C30_UnlinkedCardsUntouched ==
    \A i \in 1..Len(job_cards) :
        ~job_cards[i].link =>
            /\ job_cards[i].id \notin activated
            /\ \A j \in 1..Len(scraped_jobs) : scraped_jobs[j] # job_cards[i].id

\* C30: an invocation whose card has no link to click adds no record, does
\* not call the extractor, clicks nothing and calls the function for
\* index + 1 with the page's card count as it was; a card without a link is
\* never among the clicked cards or the records, and the extractor is called
\* at most once per clicked card.
C30_CardWithoutLinkSkipped ==
    /\ [][C30_NoLinkStep =>
            (/\ scraped_jobs' = scraped_jobs
             /\ extractions' = extractions
             /\ activated' = activated
             /\ pc' = "card"
             /\ index' = index + 1
             /\ total_jobs' = total_jobs)]_vars
    /\ []C30_UnlinkedCardsUntouched
    /\ [](extractions <= Cardinality(activated))

\* a page of two cards, the first without a link, was finished: only the
\* second card gave a record, from the only call of the extractor
C30_Witness ==
    /\ page_exit = "cards_done"
    /\ ~shrunk
    /\ total_jobs = 2
    /\ Len(job_cards) = 2
    /\ ~job_cards[1].link
    /\ job_cards[2].link
    /\ scraped_jobs = <<job_cards[2].id>>
    /\ extractions = 1
    /\ invocations = 3

(***************************************************************************)
(* Further claims about the run                                            *)
(***************************************************************************)

\* the loop slept after the call for the i-th site of the log, as the
\* configured delay asks for a call that returned
C21_CooledAsConfigured(i) ==
    site_log[i].cooled <=> (global_delay > 0 /\ site_log[i].cond # "config_error")

\* C21: the sites are called in the order of enabled_websites and one at a
\* time: a browser session is open only while the run awaits the scrape_jobs
\* call of the one site it has turned to, every site before it having come to
\* its end; and when the configured delay is positive the loop has slept
\* after every call that returned before it turns to the next site.
C21_OneSiteAtATime ==
    /\ Cardinality(open_sessions) <= 1
    /\ open_sessions = IF run_pc = "scraping" THEN {website} ELSE {}
    /\ run_pc \in {"site", "scraping"} =>
          (Len(site_log) = website - 1 /\ website <= Len(enabled_websites))
    /\ \A i \in 1..Len(site_log) : site_log[i].website = i
    /\ \A i \in 1..Len(site_log) :
          (i < Len(site_log) \/ run_pc # "cooldown") => C21_CooledAsConfigured(i)
    /\ run_pc = "cooldown" =>
          (global_delay > 0 /\ site_log # <<>> /\ ~site_log[Len(site_log)].cooled)

\* with a positive delay configured, the first site's scrape returned, the
\* loop slept, and the second site's session is the only one open
C21_Witness ==
    /\ run_pc = "scraping"
    /\ website = 2
    /\ open_sessions = {2}
    /\ global_delay > 0
    /\ Len(site_log) = 1
    /\ site_log[1].cond = "scraped"
    /\ site_log[1].cooled

\* the site's configuration file is missing, is no JSON document or cannot
\* be read
C22_SiteConfigError(i) == site_log[i].cond \in {"no_config", "config_error"}

\* C22 as stated: no missing or malformed configuration file, global or of a
\* site, ends the run, and a run that met one still calls save_json for the
\* corpus.
C22_ConfigErrorNeverEndsRun ==
    /\ run_pc # "aborted"
    /\ (run_pc = "ended" /\ \E i \in 1..Len(site_log) : C22_SiteConfigError(i))
          => save_result # "none"

\* C22, amended: a site whose configuration file is missing or malformed is
\* logged as an error, gets no scraper and gives no record, and the loop goes
\* on to the sites after it; the run then merges and saves exactly when some
\* site returned a record.  A missing or malformed global configuration ends
\* the program before any site is called: no site is logged, nothing is
\* scraped and the corpus file stays as it was.
C22_ConfigErrorSkipsSiteOrEndsRun ==
    /\ \A i \in 1..Len(site_log) :
          C22_SiteConfigError(i) =>
              /\ site_log[i].error
              /\ ~site_log[i].instantiated
              /\ site_log[i].jobs = <<>>
              /\ IF SitesDone THEN Len(site_log) = Len(enabled_websites)
                 ELSE website > i
    /\ run_pc = "ended" => (save_result # "none" <=> all_jobs # <<>>)
    /\ run_pc = "aborted" <=> global_config \in {"missing", "malformed"}
    /\ run_pc = "aborted" =>
          /\ site_log = <<>>
          /\ all_jobs = <<>>
          /\ open_sessions = {}
          /\ save_result = "none"
          /\ corpus_file = file_at_run_start

\* the first site had no readable configuration file, the second returned a
\* batch, and the batch was saved
C22_Witness ==
    /\ run_pc = "ended"
    /\ global_config = "ok"
    /\ Len(site_log) = 2
    /\ site_log[1].cond = "no_config"
    /\ site_log[1].error
    /\ site_log[2].jobs # <<>>
    /\ save_result = "saved"
    /\ corpus_file.kind = "json"

(***************************************************************************)
(* The claim about the description of a job                                *)
(***************************************************************************)

\* the content the stated rule gives for a label: nothing without a heading
\* that contains it; the item texts of the list that follows the first such
\* heading at once; else the texts of the paragraphs after the heading, up to
\* the next heading
C27_RuleContent(label) ==
    LET h == TargetH3(detail_view, label)
    IN  IF h = 0 THEN <<>>
        ELSE IF h < Len(detail_view) /\ detail_view[h + 1].tag = "UL"
             THEN JoinWith(detail_view[h + 1].texts, <<Newline>>)
             ELSE JoinWith(ParagraphsFrom(detail_view, h + 1), <<Newline, Newline>>)

\* C27 as stated: for each of the four labels the extracted content is what
\* the rule gives: the list items when a list follows the heading at once,
\* else the paragraphs up to the next heading; a section is left out only
\* when the rule gives nothing.
C27_SectionsFollowRule ==
    described =>
        /\ min_qual = C27_RuleContent("Minimum qualifications")
        /\ pref_qual = C27_RuleContent("Preferred qualifications")
        /\ about_job = C27_RuleContent("About the job")
        /\ responsibilities = C27_RuleContent("Responsibilities")


(***************************************************************************)
(* The claims about the record of a job                                    *)
(***************************************************************************)
\* the keys of the record _extract_job_data builds
RecordKeys == {"jobId", "title", "company", "location", "level",
               "jobDescription", "url", "scraped_date", "source", "status"}

\* the address holds five digits in a row
HasFiveDigits(url) ==
    \E i \in 1..Len(url) :
        /\ i + 4 <= Len(url)
        /\ \A k \in i..(i + 4) : url[k] \in Digits

\* the view has no heading for the label
NoHeading(label) ==
    \A i \in 1..Len(detail_view) :
        detail_view[i].tag = "H3" => label \notin detail_view[i].labels

\* C31: _extract_job_data never raises past its boundary.  Whatever the detail
\* view lacks and whichever browser call raises, the call answers None or one
\* record with the ten keys; it answers a record unless one of the element
\* queries of the record itself raised; in that record a missing title, level
\* or location element gives the empty text, a label without heading gives an
\* empty section, a view without elements an empty description, and an
\* address without five digits in a row gives the jobId None.
C31_NeverRaisesPastBoundary ==
    pending =>
        /\ \/ job_data = <<>>
           \/ Len(job_data) = 1 /\ DOMAIN job_data[1] = RecordKeys
        /\ query_fault \notin OuterFaults =>
              /\ Len(job_data) = 1
              /\ title_element = <<>> => job_data[1].title = <<>>
              /\ level_element = <<>> => job_data[1].level = <<>>
              /\ location_elements = <<>> => job_data[1].location = <<>>
              /\ ~HasFiveDigits(current_url) => job_data[1].jobId = None
              /\ job_data[1].url = current_url
              /\ NoHeading("Minimum qualifications") => min_qual = <<>>
              /\ NoHeading("Preferred qualifications") => pref_qual = <<>>
              /\ NoHeading("About the job") => about_job = <<>>
              /\ NoHeading("Responsibilities") => responsibilities = <<>>
              /\ detail_view = <<>> => job_data[1].jobDescription = <<>>

\* a record was emitted for a view without title, level and location at an
\* address without five digits in a row, while the query of a section raised
C31_Witness ==
    /\ pending
    /\ query_fault \in LabelSet
    /\ title_element = <<>>
    /\ level_element = <<>>
    /\ location_elements = <<>>
    /\ ~HasFiveDigits(current_url)
    /\ Len(job_data) = 1
    /\ job_data[1].jobId = None
    /\ job_data[1].title = <<>>

\* an element query raised and the call answered None
C31_WitnessNone ==
    /\ pending
    /\ query_fault \in OuterFaults
    /\ job_data = <<>>


\* the description texts a corpus record holds, under either field name
DescriptionTexts(job) == {Field(job, "description"), Field(job, "jobDescription")}

\* C33 as stated: once the run has merged the record that _extract_job_data
\* built, the corpus record of that posting holds the description text of that
\* record whenever the text is not empty, also when the posting was in the
\* corpus before with another description.
C33_ScrapedDescriptionStored ==
    (~pending /\ job_data # <<>> /\ new_jobs_in = job_data) =>
        \A i \in 1..Len(deduplicated_jobs) :
            (/\ SameKey(deduplicated_jobs[i], job_data[1])
             /\ Truthy(job_data[1].jobDescription))
            => job_data[1].jobDescription \in DescriptionTexts(deduplicated_jobs[i])


(***************************************************************************)
(* The claims about the files a run leaves                                 *)
(***************************************************************************)

\* C32 as stated: every record the corpus file held when a run started is in
\* the corpus file when the run has ended, also when the file could not be
\* read or parsed when the run loaded it.
C32_CorpusNeverLosesRecord ==
    run_pc = "ended" =>
        \A i \in 1..Len(JobsOf(file_at_run_start)) :
            Persisted(JobsOf(file_at_run_start)[i])

\* the run that ended wrote the status file
StatusWritten ==
    /\ run_pc = "ended"
    /\ save_result # "none"
    /\ DOMAIN last_run # {}
    /\ last_run.last_run_time = now

\* C34 as stated: a status file that reports n > 0 new jobs for the run was
\* written after the corpus file with those records was saved in that run.
C34_StatusOnlyAfterSave ==
    (StatusWritten /\ last_run.new_jobs_found > 0) =>
        /\ save_result = "saved"
        /\ corpus_file.kind = "json"
        /\ corpus_file.data = updated_data


(***************************************************************************)
(* The claim about the order of the traversal                              *)
(***************************************************************************)
\* the records scraped on the page under traversal
PageRecords == SubSeq(scraped_jobs, jobs_at_scan + 1, Len(scraped_jobs))

\* the first k cards of the page, as records of them would be named
FirstCards(k) == [i \in 1..k |-> job_cards[i].id]

\* the page is under traversal or was traversed to its end, its list lost no
\* card, every card has a link and no call on the page raised so far
StablePage ==
    /\ pc = "card" \/ (pc = "next_page" /\ step_kind = "done")
    /\ ~shrunk
    /\ card_failures = 0
    /\ overflows = 0
    /\ \A i \in 1..Len(job_cards) : job_cards[i].link

\* an invocation clicks the link of a card of a stable page
C35_CardClicked ==
    /\ StablePage
    /\ pc = "card"
    /\ job_cards' = job_cards
    /\ step_kind' \in {"record", "no_data"}
    /\ extractions' = extractions + 1

\* C35: on a page whose list stays as it is, whose cards all have a link and
\* on which no call raises, the invocation for index i clicks the card at i,
\* which was not clicked before, and the next invocation is for i + 1; when
\* the extraction gives a record, the record of that card is put at the end of
\* the batch.  So the cards clicked so far are the first `index` cards, the
\* records of the page are in card order and come after those of the earlier
\* pages, and when every extraction gave a record they are the records of the
\* first `index` cards, all n of them once the page is done.
C35_CardsInOrderOncePerCard ==
    /\ [](StablePage =>
            /\ index <= Len(job_cards)
            /\ {job_cards[i].id : i \in 1..Len(job_cards)} \cap activated
                  = {job_cards[i].id : i \in 1..index}
            /\ Len(PageRecords) <= index
            /\ \A i \in 1..Len(PageRecords) :
                  /\ \E k \in 1..index : PageRecords[i] = job_cards[k].id
                  /\ \A j \in 1..Len(PageRecords) :
                        i < j => PageRecords[i] < PageRecords[j]
            /\ \A i \in 1..jobs_at_scan : \A k \in 1..Len(job_cards) :
                  scraped_jobs[i] < job_cards[k].id
            /\ Len(PageRecords) = index => PageRecords = FirstCards(index)
            /\ (step_kind = "done" /\ Len(PageRecords) = index) =>
                  PageRecords = FirstCards(Len(job_cards)))
    /\ [][C35_CardClicked =>
            /\ index < Len(job_cards)
            /\ job_cards[index + 1].id \notin activated
            /\ activated' = activated \cup {job_cards[index + 1].id}
            /\ index' = index + 1
            /\ scraped_jobs' = IF step_kind' = "record"
                               THEN scraped_jobs \o <<job_cards[index + 1].id>>
                               ELSE scraped_jobs]_vars

\* the second page of a scrape is done: its two cards and the card of the
\* first page gave their records, in page order and card order
C35_Witness ==
    /\ StablePage
    /\ step_kind = "done"
    /\ page_number = 2
    /\ Len(job_cards) = 2
    /\ jobs_at_scan = 1
    /\ Len(scraped_jobs) = 3
    /\ raised = {}


(***************************************************************************)
(* The claim about the lookup of a site's scraper                          *)
(***************************************************************************)

\* C36 as stated: when _run_website_scraper has been called for the site
\* named google, after the repository's directory scrapers/google, with a
\* valid configuration that enables it, the class of that directory's module
\* was found and the call returned the batch its scrape_jobs gives.
C36_SiteNamedAfterDirectoryScraped ==
    (/\ lookup # "none"
     /\ website_name = <<"g", "o", "o", "g", "l", "e">>
     /\ website_config = "ok"
     /\ \E m \in scraper_modules : m.dir = website_name)
    => /\ lookup = "scraped"
       /\ \E m \in scraper_modules : m.dir = website_name /\ scraper_class \in m.classes
       /\ site_jobs = scrape_yield

====
